---- MODULE Spec2Model ----
(***************************************************************************)
(* ClientConnect customer portal: the product search of the place-order    *)
(* page (client/src/pages/place-order.tsx), the asynchronous search of the *)
(* filtered place-order page (client/src/pages/profile.tsx with the local  *)
(* Ollama search module) and the helpers they use.                         *)
(*                                                                         *)
(* A JavaScript string is a sequence of one-character strings, so that     *)
(* toLowerCase, includes, split, trim and the regular expressions of the   *)
(* source are computed character by character.  The alphabet of the model  *)
(* is ASCII letters of both cases, digits, the space and the dot.          *)
(* A score is an exact fraction <<numerator, denominator>> in lowest       *)
(* terms.                                                                  *)
(***************************************************************************)
EXTENDS Integers, Sequences, FiniteSets, TLC

-----------------------------------------------------------------------------
(* Characters and strings                                                  *)

LowerChars == <<"a","b","c","d","e","f","g","h","i","j","k","l","m",
                "n","o","p","q","r","s","t","u","v","w","x","y","z">>

UpperChars == <<"A","B","C","D","E","F","G","H","I","J","K","L","M",
                "N","O","P","Q","R","S","T","U","V","W","X","Y","Z">>

DigitChars == {"0","1","2","3","4","5","6","7","8","9"}

IsLower(c) == \E k \in DOMAIN LowerChars : LowerChars[k] = c

IsUpper(c) == \E k \in DOMAIN UpperChars : UpperChars[k] = c

IsLetter(c) == IsLower(c) \/ IsUpper(c)

IsDigit(c) == c \in DigitChars

\* \w of a regular expression
IsWordChar(c) == IsLetter(c) \/ IsDigit(c) \/ c = "_"

\* \s of a regular expression, and what trim() strips
IsSpace(c) == c = " "

LowerOf(c) ==
  IF IsUpper(c) THEN LowerChars[CHOOSE k \in DOMAIN UpperChars : UpperChars[k] = c] ELSE c

UpperOf(c) ==
  IF IsLower(c) THEN UpperChars[CHOOSE k \in DOMAIN LowerChars : LowerChars[k] = c] ELSE c

\* The sequence f with its elements computed once
Explicit(f) == SubSeq(f, 1, Len(f))

toLowerCase(s) == Explicit([i \in 1..Len(s) |-> LowerOf(s[i])])

toUpperCase(s) == Explicit([i \in 1..Len(s) |-> UpperOf(s[i])])

\* s.includes(t)
includes(s, t) ==
  \E i \in 0..(Len(s) - Len(t)) : SubSeq(s, i + 1, i + Len(t)) = t

\* A variant of trim that leaves the blanks at both ends
untrimmed(s) == s

\* s.trim()
trim(s) ==
  IF \A i \in 1..Len(s) : IsSpace(s[i]) THEN <<>>
  ELSE LET first == CHOOSE i \in 1..Len(s) :
                      ~IsSpace(s[i]) /\ \A k \in 1..(i - 1) : IsSpace(s[k])
           last  == CHOOSE i \in 1..Len(s) :
                      ~IsSpace(s[i]) /\ \A k \in (i + 1)..Len(s) : IsSpace(s[k])
       IN  SubSeq(s, first, last)

\* The k-th smallest of a set of positions
Nth(S, k) == CHOOSE x \in S : Cardinality({y \in S : y < x}) = k - 1

\* s.split(' '): the pieces between single spaces, empty pieces included
split(s) ==
  LET spaces == {i \in 1..Len(s) : s[i] = " "}
      n == Cardinality(spaces)
      cut(k) == IF k = 0 THEN 0 ELSE IF k = n + 1 THEN Len(s) + 1 ELSE Nth(spaces, k)
  IN  Explicit([k \in 1..(n + 1) |-> SubSeq(s, cut(k - 1) + 1, cut(k) - 1)])

RECURSIVE JoinFrom(_, _, _)
JoinFrom(parts, i, acc) ==
  IF i > Len(parts) THEN acc
  ELSE JoinFrom(parts, i + 1, IF i = 1 THEN parts[i] ELSE acc \o <<" ">> \o parts[i])

\* parts.join(' ')
join(parts) == JoinFrom(parts, 1, <<>>)

RECURSIVE SelectIdx(_, _, _, _)
SelectIdx(s, Keep(_), i, acc) ==
  IF i > Len(s) THEN acc
  ELSE SelectIdx(s, Keep, i + 1, IF Keep(s[i]) THEN Append(acc, s[i]) ELSE acc)

\* array.filter(keep)
filter(s, Keep(_)) == SelectIdx(s, Keep, 1, <<>>)

\* array.slice(0, n)
slice(s, n) == SubSeq(s, 1, IF n < Len(s) THEN n ELSE Len(s))

\* An absent optional field (undefined)
Undefined == <<"<undefined>">>

\* `${x}` in a template literal: an absent value prints as the word undefined
Template(x) ==
  IF x = Undefined THEN <<"u","n","d","e","f","i","n","e","d">> ELSE x

\* x || '' (an absent or empty string counts as '')
OrEmpty(x) == IF x = Undefined THEN <<>> ELSE x

-----------------------------------------------------------------------------
(* Words of a text: the maximal runs of \w characters, which is where the  *)
(* \b of the source's regular expressions can stand.  Each word is kept    *)
(* with the separator text that precedes it.                               *)

Words(s) ==
  LET starts == {i \in 1..Len(s) :
                   IsWordChar(s[i]) /\ (i = 1 \/ ~IsWordChar(s[i - 1]))}
      endOf(i) == CHOOSE j \in i..Len(s) :
                    /\ \A k \in i..j : IsWordChar(s[k])
                    /\ (j = Len(s) \/ ~IsWordChar(s[j + 1]))
      startOf(k) == Nth(starts, k)
      endBefore(k) == IF k = 1 THEN 0 ELSE endOf(startOf(k - 1))
  IN  Explicit([k \in 1..Cardinality(starts) |->
                  [word |-> SubSeq(s, startOf(k), endOf(startOf(k))),
                   sep  |-> SubSeq(s, endBefore(k) + 1, startOf(k) - 1)]])

AllDigits(w) == \A i \in 1..Len(w) : IsDigit(w[i])

AllLetters(w) == \A i \in 1..Len(w) : IsLetter(w[i])

AllAlnum(w) == \A i \in 1..Len(w) : IsLetter(w[i]) \/ IsDigit(w[i])

AllSpaces(w) == \A i \in 1..Len(w) : IsSpace(w[i])

-----------------------------------------------------------------------------
(* Exact fractions                                                         *)

RECURSIVE GCD(_, _)
GCD(a, b) == IF b = 0 THEN a ELSE GCD(b, a % b)

Frac(n, d) == LET g == GCD(n, d) IN <<n \div g, d \div g>>

\* p hundredths: Pct(85) is the 0.85 of the source
Pct(p) == Frac(p, 100)

Zero == Pct(0)

One == Pct(100)

Less(a, b) == a[1] * b[2] < b[1] * a[2]

LessEq(a, b) == a[1] * b[2] <= b[1] * a[2]

\* Math.max(a, b)
max(a, b) == IF Less(a, b) THEN b ELSE a

\* a * b
times(a, b) == Frac(a[1] * b[1], a[2] * b[2])

-----------------------------------------------------------------------------
(* calculateSimilarity (place-order.tsx)                                   *)

Min3(a, b, c) ==
  IF a <= b /\ a <= c THEN a ELSE IF b <= c THEN b ELSE c

\* A variant of matrixRow in which the step from matrix[j][i - 1] costs 2
RECURSIVE matrixRowCostly(_, _, _, _, _)
matrixRowCostly(s1, s2, j, above, row) ==
  LET i == Len(row) IN
  IF i > Len(s1) THEN row
  ELSE LET cost == IF s1[i] = s2[j] THEN 0 ELSE 1
           cell == Min3(row[i] + 2, above[i + 1] + 1, above[i] + cost)
       IN  matrixRowCostly(s1, s2, j, above, Append(row, cell))

\* One row matrix[j][0..s1.length] from the row above it; row[i + 1] holds matrix[j][i]
RECURSIVE matrixRow(_, _, _, _, _)
matrixRow(s1, s2, j, above, row) ==
  LET i == Len(row) IN
  IF i > Len(s1) THEN row
  ELSE LET cost == IF s1[i] = s2[j] THEN 0 ELSE 1
           cell == Min3(row[i] + 1, above[i + 1] + 1, above[i] + cost)
       IN  matrixRow(s1, s2, j, above, Append(row, cell))

\* The rows matrix[0..s2.length], row j built from matrix[j - 1]
RECURSIVE matrixRows(_, _, _, _)
matrixRows(s1, s2, j, matrix) ==
  IF j > Len(s2) THEN matrix
  ELSE matrixRows(s1, s2, j + 1,
                  Append(matrix, matrixRow(s1, s2, j, matrix[j], <<j>>)))

\* A variant of editDistance that counts every character of both strings
distanceBySum(s1, s2) == Len(s1) + Len(s2)

\* matrix[s2.length][s1.length]; matrix[0] is 0..s1.length
editDistance(s1, s2) ==
  matrixRows(s1, s2, 1,
             << [i \in 1..(Len(s1) + 1) |-> i - 1] >>)[Len(s2) + 1][Len(s1) + 1]

\* A variant of calculateSimilarity that compares the strings as given
similarityAsGiven(str1, str2) ==
  LET maxLength == IF Len(str1) > Len(str2) THEN Len(str1) ELSE Len(str2)
  IN  IF str1 = str2 THEN One
      ELSE IF includes(str1, str2) \/ includes(str2, str1) THEN Pct(90)
      ELSE Frac(maxLength - editDistance(str1, str2), maxLength)

calculateSimilarity(str1, str2) ==
  LET s1 == toLowerCase(str1)
      s2 == toLowerCase(str2)
      maxLength == IF Len(s1) > Len(s2) THEN Len(s1) ELSE Len(s2)
  IN  IF s1 = s2 THEN One
      ELSE IF includes(s1, s2) \/ includes(s2, s1) THEN Pct(90)
      ELSE Frac(maxLength - editDistance(s1, s2), maxLength)

-----------------------------------------------------------------------------
(* extractOEMCodes (place-order.tsx)                                       *)

\* Removes later duplicates: the insertion order of a JavaScript Set
RECURSIVE Dedup(_, _, _)
Dedup(s, i, acc) ==
  IF i > Len(s) THEN acc
  ELSE Dedup(s, i + 1,
         IF \E k \in 1..Len(acc) : acc[k] = s[i] THEN acc ELSE Append(acc, s[i]))

\* The word is `lead` or more characters of class A followed only by class B
Shape(w, lead, A(_), B(_)) ==
  \E k \in lead..Len(w) :
    /\ \A i \in 1..k : A(w[i])
    /\ \A i \in (k + 1)..Len(w) : B(w[i])

IsOEMWord(w) == toUpperCase(w) = <<"O","E","M">>

\* /\b(?:OEM\s+)?([A-Z0-9]{4,})\b/gi : the matches in text order, each with its
\* leading "OEM " removed and upper-cased (the cleaning of the forEach)
RECURSIVE standardCodes(_, _, _)
standardCodes(ws, k, acc) ==
  IF k > Len(ws) THEN acc
  ELSE IF /\ IsOEMWord(ws[k].word)
          /\ k < Len(ws)
          /\ AllSpaces(ws[k + 1].sep)
          /\ AllAlnum(ws[k + 1].word)
          /\ Len(ws[k + 1].word) >= 4
    THEN standardCodes(ws, k + 2, Append(acc, toUpperCase(ws[k + 1].word)))
  ELSE IF AllAlnum(ws[k].word) /\ Len(ws[k].word) >= 4
    THEN standardCodes(ws, k + 1, Append(acc, toUpperCase(ws[k].word)))
  ELSE standardCodes(ws, k + 1, acc)

\* /\b([0-9]{5,}[A-Z]*)\b/gi
IsNumericCode(w) == Shape(w, 5, IsDigit, IsLetter)

\* /\b([A-Z]{2,}[0-9]{3,})\b/gi
IsLetterPrefixCode(w) ==
  \E k \in 2..(Len(w) - 3) :
    /\ \A i \in 1..k : IsLetter(w[i])
    /\ \A i \in (k + 1)..Len(w) : IsDigit(w[i])

\* /\b([0-9]{3,}[A-Z][0-9]*)\b/gi
IsMixedCode(w) ==
  \E k \in 3..(Len(w) - 1) :
    /\ \A i \in 1..k : IsDigit(w[i])
    /\ IsLetter(w[k + 1])
    /\ \A i \in (k + 2)..Len(w) : IsDigit(w[i])

RECURSIVE wordCodes(_, _, _, _)
wordCodes(ws, Pattern(_), k, acc) ==
  IF k > Len(ws) THEN acc
  ELSE wordCodes(ws, Pattern, k + 1,
         IF Pattern(ws[k].word) /\ Len(ws[k].word) >= 4
           THEN Append(acc, toUpperCase(ws[k].word)) ELSE acc)

extractOEMCodes(text) ==
  LET ws == Words(text)
  IN  Dedup(standardCodes(ws, 1, <<>>)
              \o wordCodes(ws, IsNumericCode, 1, <<>>)
              \o wordCodes(ws, IsLetterPrefixCode, 1, <<>>)
              \o wordCodes(ws, IsMixedCode, 1, <<>>), 1, <<>>)

-----------------------------------------------------------------------------
(* isOEMSimilar (place-order.tsx)                                          *)

\* s.substring(0, 3)
prefix3(s) == SubSeq(s, 1, IF Len(s) < 3 THEN Len(s) ELSE 3)

\* s.slice(-3)
suffix3(s) == SubSeq(s, IF Len(s) < 3 THEN 1 ELSE Len(s) - 2, Len(s))

\* A variant of isOEMSimilar that compares the ends of the codes before it
\* looks for one code in the other
isOEMSimilarEndsFirst(code1, code2) ==
  LET prefixMatch == prefix3(code1) = prefix3(code2)
      suffixMatch == suffix3(code1) = suffix3(code2)
      similarity  == calculateSimilarity(code1, code2)
  IN  IF code1 = code2 THEN One
      ELSE IF prefixMatch /\ suffixMatch THEN Pct(80)
      ELSE IF prefixMatch \/ suffixMatch THEN Pct(60)
      ELSE IF includes(code1, code2) \/ includes(code2, code1) THEN Pct(90)
      ELSE IF Less(Pct(70), similarity) THEN similarity
      ELSE Zero

isOEMSimilar(code1, code2) ==
  LET prefixMatch == prefix3(code1) = prefix3(code2)
      suffixMatch == suffix3(code1) = suffix3(code2)
      similarity  == calculateSimilarity(code1, code2)
  IN  IF code1 = code2 THEN One
      ELSE IF includes(code1, code2) \/ includes(code2, code1) THEN Pct(90)
      ELSE IF prefixMatch /\ suffixMatch THEN Pct(80)
      ELSE IF prefixMatch \/ suffixMatch THEN Pct(60)
      ELSE IF Less(Pct(70), similarity) THEN similarity
      ELSE Zero

-----------------------------------------------------------------------------
(* The specification patterns shared by areProductsSimilar and the fourth  *)
(* tier of smartProductSearch.  NoMatch is the null of String.match.       *)

NoMatch == <<"<null>">>

\* \d+w\d+ as a whole word (the text is lower case where it is applied)
IsViscosityWord(w) ==
  \E k \in 2..(Len(w) - 1) :
    /\ LowerOf(w[k]) = "w"
    /\ AllDigits(SubSeq(w, 1, k - 1))
    /\ AllDigits(SubSeq(w, k + 1, Len(w)))

\* \d+l as a whole word
IsLitreWord(w) ==
  /\ Len(w) >= 2
  /\ LowerOf(w[Len(w)]) = "l"
  /\ AllDigits(SubSeq(w, 1, Len(w) - 1))

\* text.match(/\b(\d+w\d+)\b/i)?.[1]
RECURSIVE viscosityFrom(_, _)
viscosityFrom(ws, k) ==
  IF k > Len(ws) THEN NoMatch
  ELSE IF IsViscosityWord(ws[k].word) THEN ws[k].word
  ELSE viscosityFrom(ws, k + 1)

matchViscosity(text) == viscosityFrom(Words(text), 1)

\* text.match(/\b(\d+(?:\.\d+)?l)\b/i)?.[1]
RECURSIVE volumeFrom(_, _)
volumeFrom(ws, k) ==
  IF k > Len(ws) THEN NoMatch
  ELSE IF IsLitreWord(ws[k].word) THEN ws[k].word
  ELSE IF /\ AllDigits(ws[k].word)
          /\ k < Len(ws)
          /\ ws[k + 1].sep = <<".">>
          /\ IsLitreWord(ws[k + 1].word)
    THEN ws[k].word \o <<".">> \o ws[k + 1].word
  ELSE volumeFrom(ws, k + 1)

matchVolume(text) == volumeFrom(Words(text), 1)

GradeKeywords == << <<"s","a","e">>, <<"a","p","i">>, <<"a","c","e","a">> >>

StartsWith(w, p) == Len(w) >= Len(p) /\ toLowerCase(SubSeq(w, 1, Len(p))) = p

\* text.match(/\b(sae|api|acea)\s*([a-z0-9-]+)\b/i)?.[2]
RECURSIVE gradeFrom(_, _)
gradeFrom(ws, k) ==
  IF k > Len(ws) THEN NoMatch
  ELSE IF \E g \in DOMAIN GradeKeywords : StartsWith(ws[k].word, GradeKeywords[g])
    THEN LET g    == CHOOSE g \in DOMAIN GradeKeywords :
                       StartsWith(ws[k].word, GradeKeywords[g])
             rest == SubSeq(ws[k].word, Len(GradeKeywords[g]) + 1, Len(ws[k].word))
         IN  IF rest # <<>>
               THEN IF AllAlnum(rest) THEN rest ELSE gradeFrom(ws, k + 1)
             ELSE IF /\ k < Len(ws)
                     /\ AllSpaces(ws[k + 1].sep)
                     /\ AllAlnum(ws[k + 1].word)
               THEN ws[k + 1].word
             ELSE gradeFrom(ws, k + 1)
  ELSE gradeFrom(ws, k + 1)

matchGrade(text) == gradeFrom(Words(text), 1)

ApplicationWords ==
  { <<"g","a","s","o","l","i","n","e">>, <<"d","i","e","s","e","l">>,
    <<"e","n","g","i","n","e">>, <<"g","e","a","r">>,
    <<"t","r","a","n","s","m","i","s","s","i","o","n">> }

\* text.match(/\b(gasoline|diesel|engine|gear|transmission)\b/i)?.[1]
RECURSIVE applicationFrom(_, _)
applicationFrom(ws, k) ==
  IF k > Len(ws) THEN NoMatch
  ELSE IF toLowerCase(ws[k].word) \in ApplicationWords THEN ws[k].word
  ELSE applicationFrom(ws, k + 1)

matchApplication(text) == applicationFrom(Words(text), 1)

-----------------------------------------------------------------------------
(* The scorer of smartProductSearch (place-order.tsx): the body of the     *)
(* products.map callback.  The running state of one product is             *)
(* [maxScore, matchType, thrown]; thrown marks the TypeError of a method   *)
(* call on an absent field, which ends the callback.                       *)

Running(score, type) == [maxScore |-> score, matchType |-> type, thrown |-> FALSE]

Thrown == [maxScore |-> Zero, matchType |-> "", thrown |-> TRUE]

\* matchType || type
OrType(matchType, type) == IF matchType = "" THEN type ELSE matchType

\* [name, itemCode, description || '', category || ''].join(' ').toLowerCase();
\* join prints an absent element as the empty string
searchableTextOf(product) ==
  toLowerCase(join(<<OrEmpty(product.name), OrEmpty(product.itemCode),
                     OrEmpty(product.description), OrEmpty(product.category)>>))

\* `${itemCode} ${name} ${description || ''}`
productTextOf(product) ==
  Template(product.itemCode) \o <<" ">> \o Template(product.name)
    \o <<" ">> \o OrEmpty(product.description)

\* extractOEMCodes(`${itemCode} ${name} ${description || ''}`)
productOEMCodesOf(product) == extractOEMCodes(productTextOf(product))

\* if (similarity >= 0.8) { maxScore = Math.max(maxScore, similarity); matchType = ... }
similarCode(st, similarity) ==
  IF LessEq(Pct(80), similarity)
    THEN Running(max(st.maxScore, similarity),
                 IF similarity = One THEN "OEM_EXACT" ELSE "OEM_SIMILAR")
    ELSE st

\* The inner loop over the product's codes for one query code
RECURSIVE oemCodeLoop(_, _, _, _)
oemCodeLoop(queryOEM, productOEMCodes, k, st) ==
  IF k > Len(productOEMCodes) THEN st
  ELSE oemCodeLoop(queryOEM, productOEMCodes, k + 1,
                   similarCode(st, isOEMSimilar(queryOEM, productOEMCodes[k])))

\* if (product.itemCode.toUpperCase().includes(queryOEM)) { maxScore = 1.0; ... }
exactCode(product, queryOEM, st) ==
  IF includes(toUpperCase(product.itemCode), queryOEM)
    THEN Running(max(st.maxScore, One), "OEM_EXACT")
    ELSE st

\* if (maxScore < 0.8 && searchableText.includes(queryOEM.toLowerCase())) { ... }
partialCode(product, queryOEM, st) ==
  IF /\ Less(st.maxScore, Pct(80))
     /\ includes(searchableTextOf(product), toLowerCase(queryOEM))
    THEN Running(max(st.maxScore, Pct(70)), "OEM_PARTIAL")
    ELSE st

\* 1. OEM code matches: the loop over the query's codes
RECURSIVE oemTierLoop(_, _, _, _)
oemTierLoop(product, queryOEMCodes, q, st) ==
  IF q > Len(queryOEMCodes) THEN st
  ELSE IF product.itemCode = Undefined THEN Thrown
  ELSE oemTierLoop(product, queryOEMCodes, q + 1,
         partialCode(product, queryOEMCodes[q],
           oemCodeLoop(queryOEMCodes[q], productOEMCodesOf(product), 1,
             exactCode(product, queryOEMCodes[q], st))))

oemTier(product, queryOEMCodes, st) == oemTierLoop(product, queryOEMCodes, 1, st)

\* 2. Exact term matches: the loop over the search terms
RECURSIVE exactTermLoop(_, _, _, _)
exactTermLoop(product, searchTerms, k, st) ==
  IF k > Len(searchTerms) THEN st
  ELSE LET term == searchTerms[k] IN
       IF Len(term) < 2 THEN exactTermLoop(product, searchTerms, k + 1, st)
       ELSE IF product.name = Undefined THEN Thrown
       ELSE IF includes(toLowerCase(product.name), term)
         THEN exactTermLoop(product, searchTerms, k + 1,
                Running(max(st.maxScore, Pct(85)), OrType(st.matchType, "NAME_EXACT")))
       ELSE IF product.itemCode = Undefined THEN Thrown
       ELSE IF includes(toLowerCase(product.itemCode), term)
         THEN exactTermLoop(product, searchTerms, k + 1,
                Running(max(st.maxScore, Pct(80)), OrType(st.matchType, "CODE_EXACT")))
       ELSE IF includes(searchableTextOf(product), term)
         THEN exactTermLoop(product, searchTerms, k + 1,
                Running(max(st.maxScore, Pct(70)), OrType(st.matchType, "DESC_EXACT")))
       ELSE exactTermLoop(product, searchTerms, k + 1, st)

exactTermTier(product, searchTerms, st) ==
  IF Less(st.maxScore, Pct(90)) THEN exactTermLoop(product, searchTerms, 1, st) ELSE st

\* 3. Fuzzy matching: the loop over the search terms
RECURSIVE fuzzyLoop(_, _, _, _)
fuzzyLoop(product, searchTerms, k, st) ==
  IF k > Len(searchTerms) THEN st
  ELSE LET term == searchTerms[k] IN
       IF Len(term) < 3 THEN fuzzyLoop(product, searchTerms, k + 1, st)
       ELSE IF product.name = Undefined \/ product.itemCode = Undefined THEN Thrown
       ELSE LET nameScore == calculateSimilarity(term, toLowerCase(product.name))
                codeScore == calculateSimilarity(term, toLowerCase(product.itemCode))
                descScore == IF OrEmpty(product.description) # <<>>
                               THEN calculateSimilarity(term, toLowerCase(product.description))
                               ELSE Zero
                bestFuzzyScore == max(max(times(nameScore, Pct(80)),
                                          times(codeScore, Pct(90))),
                                      times(descScore, Pct(60)))
            IN  IF Less(st.maxScore, bestFuzzyScore)
                  THEN fuzzyLoop(product, searchTerms, k + 1,
                         Running(bestFuzzyScore, OrType(st.matchType, "FUZZY")))
                  ELSE fuzzyLoop(product, searchTerms, k + 1, st)

\* A variant of fuzzyTier that runs whatever the running score is
fuzzyTierAlways(product, searchTerms, st) == fuzzyLoop(product, searchTerms, 1, st)

fuzzyTier(product, searchTerms, st) ==
  IF Less(st.maxScore, Pct(70)) THEN fuzzyLoop(product, searchTerms, 1, st) ELSE st

\* 4. Specification matches (viscosity, volume, grade)
specificationTier(product, queryLower, st) ==
  IF ~Less(st.maxScore, Pct(60)) THEN st
  ELSE LET searchableText == searchableTextOf(product)
           viscosityMatch == matchViscosity(queryLower)
           volumeMatch    == matchVolume(queryLower)
           gradeMatch     == matchGrade(queryLower)
           s1 == IF viscosityMatch # NoMatch /\ includes(searchableText, viscosityMatch)
                   THEN Running(max(st.maxScore, Pct(60)),
                                OrType(st.matchType, "SPEC_VISCOSITY"))
                   ELSE st
           s2 == IF volumeMatch # NoMatch /\ includes(searchableText, volumeMatch)
                   THEN Running(max(s1.maxScore, Pct(50)),
                                OrType(s1.matchType, "SPEC_VOLUME"))
                   ELSE s1
           s3 == IF gradeMatch # NoMatch /\ includes(searchableText, gradeMatch)
                   THEN Running(max(s2.maxScore, Pct(55)),
                                OrType(s2.matchType, "SPEC_GRADE"))
                   ELSE s2
       IN  s3

\* Runs `tier` on the running state st, computed once, unless an earlier
\* tier has thrown
Then(st, tier(_)) ==
  CHOOSE next \in {IF now.thrown THEN now ELSE tier(now) : now \in {st}} : TRUE

\* query.toLowerCase().trim()
queryLowerOf(query) == trim(toLowerCase(query))

LongerThanOne(term) == Len(term) > 1

\* queryLower.split(' ').filter(term => term.length > 1)
searchTermsOf(query) == filter(split(queryLowerOf(query)), LongerThanOne)

\* The map callback, tier by tier: the running [maxScore, matchType] (or
\* thrown) as tiers 1, 2, 3 and 4 leave it
runningOf(product, query) ==
  LET queryLower    == queryLowerOf(query)
      searchTerms   == searchTermsOf(query)
      queryOEMCodes == extractOEMCodes(query)
      Tier1(st) == oemTier(product, queryOEMCodes, st)
      Tier2(st) == exactTermTier(product, searchTerms, st)
      Tier3(st) == fuzzyTier(product, searchTerms, st)
      Tier4(st) == specificationTier(product, queryLower, st)
      From3(s1, s2, s3) == <<s1, s2, s3, Then(s3, Tier4)>>
      From2(s1, s2) == CHOOSE r \in {From3(s1, s2, s3) : s3 \in {Then(s2, Tier3)}} : TRUE
      From1(s1) == CHOOSE r \in {From2(s1, s2) : s2 \in {Then(s1, Tier2)}} : TRUE
  IN  CHOOSE r \in {From1(s1) : s1 \in {Then(Running(Zero, ""), Tier1)}} : TRUE

\* The map callback: the product's final [maxScore, matchType], or thrown
scoreProduct(product, query) ==
  LET queryLower    == queryLowerOf(query)
      searchTerms   == searchTermsOf(query)
      queryOEMCodes == extractOEMCodes(query)
      Tier1(st) == oemTier(product, queryOEMCodes, st)
      Tier2(st) == exactTermTier(product, searchTerms, st)
      Tier3(st) == fuzzyTier(product, searchTerms, st)
      Tier4(st) == specificationTier(product, queryLower, st)
  IN  Then(Then(Then(Then(Running(Zero, ""), Tier1), Tier2), Tier3), Tier4)

-----------------------------------------------------------------------------
(* areProductsSimilar (place-order.tsx)                                    *)

\* product.name.split(' ')[0]?.toLowerCase()
brandOf(product) == toLowerCase(split(product.name)[1])

extractSpecs(product) ==
  LET text == toLowerCase(Template(product.name) \o <<" ">> \o Template(product.itemCode)
                            \o <<" ">> \o OrEmpty(product.description))
  IN  [viscosity   |-> matchViscosity(text),
       volume      |-> matchVolume(text),
       brand       |-> brandOf(product),
       application |-> matchApplication(text)]

\* a && b && a === b for two optional matches
Same(a, b) == a # NoMatch /\ b # NoMatch /\ a = b

areProductsSimilar(product1, product2) ==
  LET specs1 == extractSpecs(product1)
      specs2 == extractSpecs(product2)
      sameViscosity   == Same(specs1.viscosity, specs2.viscosity)
      sameVolume      == Same(specs1.volume, specs2.volume)
      sameApplication == Same(specs1.application, specs2.application)
      differentBrand  == specs1.brand # specs2.brand
  IN  sameViscosity /\ (sameVolume \/ sameApplication) /\ differentBrand

-----------------------------------------------------------------------------
(* The ranking of smartProductSearch (place-order.tsx)                     *)

typeOrder == <<"OEM_EXACT", "OEM_SIMILAR", "NAME_EXACT", "CODE_EXACT",
               "OEM_PARTIAL", "DESC_EXACT", "SPEC_VISCOSITY", "FUZZY">>

\* typeOrder.indexOf(matchType): the 0-based place, -1 for a type not listed
indexOf(matchType) ==
  IF \E k \in DOMAIN typeOrder : typeOrder[k] = matchType
    THEN (CHOOSE k \in DOMAIN typeOrder : typeOrder[k] = matchType) - 1
    ELSE -1

\* The sort callback is negative: a is placed before b
sortsBefore(a, b) ==
  IF a.score # b.score THEN Less(b.score, a.score)
  ELSE indexOf(a.matchType) < indexOf(b.matchType)

\* Array.prototype.sort is stable: an item goes before the first one it sorts before
RECURSIVE insertSorted(_, _, _)
insertSorted(sorted, item, k) ==
  IF k > Len(sorted) THEN Append(sorted, item)
  ELSE IF sortsBefore(item, sorted[k])
    THEN SubSeq(sorted, 1, k - 1) \o <<item>> \o SubSeq(sorted, k, Len(sorted))
  ELSE insertSorted(sorted, item, k + 1)

RECURSIVE sortFrom(_, _, _)
sortFrom(items, k, sorted) ==
  IF k > Len(items) THEN sorted
  ELSE sortFrom(items, k + 1, insertSorted(sorted, items[k], 1))

sort(items) == sortFrom(items, 1, <<>>)

\* A variant of IsGoodMatch with the threshold of the potential matches
IsAnyMatch(item) == LessEq(Pct(15), item.score)

IsGoodMatch(item) == LessEq(Pct(40), item.score)

IsPotentialMatch(item) == LessEq(Pct(15), item.score) /\ Less(item.score, Pct(40))

\* forEach(item => if (!suggestionSet.has(item.product.id)) suggestions.push(item.product))
RECURSIVE pushNew(_, _, _)
pushNew(items, k, suggestions) ==
  IF k > Len(items) THEN suggestions
  ELSE pushNew(items, k + 1,
         IF \E s \in 1..Len(suggestions) : suggestions[s] = items[k].product
           THEN suggestions ELSE Append(suggestions, items[k].product))

-----------------------------------------------------------------------------
(* The catalog served by GET /api/products and the texts typed in the      *)
(* search box.  A product is [id, name, itemCode, description, category,   *)
(* brand, price]; a field the record does not carry is Undefined.  The     *)
(* pages hold products by reference: a product is named below by its place *)
(* in ProductPool.                                                         *)

ProductPool ==
  << [id |-> "shell",
      name |-> <<"S","h","e","l","l"," ","H","e","l","i","x"," ","5","W","3","0"," ","1","L">>,
      itemCode |-> <<"S","H","1","5","3","0","1">>,
      description |-> <<"e","n","g","i","n","e"," ","o","i","l">>,
      category |-> <<"O","i","l","s">>,
      brand |-> <<"S","h","e","l","l">>,
      price |-> <<"1","2","0",".","0","0">>],
     [id |-> "total",
      name |-> <<"T","o","t","a","l"," ","Q","u","a","r","t","z"," ","5","W","3","0"," ","1","L">>,
      itemCode |-> <<"T","Q","1","5","3","0","1">>,
      description |-> <<"e","n","g","i","n","e"," ","o","i","l">>,
      category |-> <<"O","i","l","s">>,
      brand |-> <<"T","o","t","a","l">>,
      price |-> <<"1","1","5",".","5","0">>],
     [id |-> "mobil",
      name |-> <<"M","o","b","i","l"," ","S","u","p","e","r"," ","5","W","3","0"," ","1","L">>,
      itemCode |-> <<"M","S","1","5","3","0","1">>,
      description |-> Undefined,
      category |-> <<"O","i","l","s">>,
      brand |-> <<"M","o","b","i","l">>,
      price |-> <<"9","9">>],
     [id |-> "castrol",
      name |-> <<"C","a","s","t","r","o","l"," ","E","d","g","e"," ","5","W","3","0"," ","1","L">>,
      itemCode |-> <<"C","E","1","5","3","0","1">>,
      description |-> Undefined,
      category |-> <<"O","i","l","s">>,
      brand |-> <<"C","a","s","t","r","o","l">>,
      price |-> <<"1","3","0",".","0","0">>],
     [id |-> "motul",
      name |-> <<"M","o","t","u","l"," ","5","W","3","0"," ","1","L">>,
      itemCode |-> <<"M","T","1","5","3","0","1">>,
      description |-> Undefined,
      category |-> <<"O","i","l","s">>,
      brand |-> <<"M","o","t","u","l">>,
      price |-> <<"1","4","0",".","0","0">>],
     [id |-> "elf",
      name |-> <<"E","l","f"," ","E","v","o"," ","5","W","3","0"," ","1","L">>,
      itemCode |-> <<"E","L","1","5","3","0","1">>,
      description |-> Undefined,
      category |-> <<"O","i","l","s">>,
      brand |-> <<"E","l","f">>,
      price |-> <<"9","0",".","0","0">>],
     [id |-> "afriquia",
      name |-> <<"A","f","r","i","q","u","i","a"," ","5","W","3","0"," ","1","L">>,
      itemCode |-> <<"A","F","1","5","3","0","1">>,
      description |-> Undefined,
      category |-> <<"O","i","l","s">>,
      brand |-> <<"A","f","r","i","q","u","i","a">>,
      price |-> <<"8","5",".","0","0">>],
     [id |-> "filter",
      name |-> <<"O","i","l"," ","F","i","l","t","e","r"," ","A","B","1","X","3","4","5">>,
      itemCode |-> <<"A","B","1","2","3","4","5">>,
      description |-> <<"O","E","M"," ","1","9","0","6","8","9"," ","f","i","t","s"," ","d","i","e","s","e","l">>,
      category |-> <<"F","i","l","t","e","r","s">>,
      brand |-> Undefined,
      price |-> <<"4","5",".","0","0">>],
     [id |-> "brake",
      name |-> <<"B","r","a","k","e"," ","P","a","d">>,
      itemCode |-> <<"A","B","C","1","2","3","4","5">>,
      description |-> <<"f","o","r"," ","c","a","r">>,
      category |-> <<"C","h","a","s","s","i","s">>,
      brand |-> Undefined,
      price |-> <<"3","0",".","0","0">>],
     [id |-> "gear",
      name |-> <<"G","e","a","r"," ","O","i","l"," ","S","A","E"," ","9","0"," ","5","L">>,
      itemCode |-> <<"G","O","9","0","5">>,
      description |-> <<"t","r","a","n","s","m","i","s","s","i","o","n"," ","g","e","a","r">>,
      category |-> <<"O","i","l","s">>,
      brand |-> <<"T","o","t","a","l">>,
      price |-> <<"6","0">>],
     [id |-> "free",
      name |-> <<"F","r","e","e"," ","S","a","m","p","l","e">>,
      itemCode |-> <<"F","S","0","0","0","0","1">>,
      description |-> <<>>,
      category |-> Undefined,
      brand |-> Undefined,
      price |-> <<"0",".","0","0">>],
     [id |-> "ghost",
      name |-> <<"G","h","o","s","t"," ","I","t","e","m">>,
      itemCode |-> Undefined,
      description |-> Undefined,
      category |-> Undefined,
      brand |-> Undefined,
      price |-> <<"5">>],
     [id |-> "bosch",
      name |-> <<"B","o","s","c","h"," ","F","i","l","t","e","r">>,
      itemCode |-> <<"B","F","0","0","0","1","3">>,
      description |-> <<"f","i","t","s"," ","d","i","e","s","e","l">>,
      category |-> <<"F","i","l","t","e","r","s">>,
      brand |-> Undefined,
      price |-> <<"2","0">>] >>

Queries ==
  << <<>>,
     <<" ">>,
     <<"A","B","C","1","2","3","4","5">>,
     <<"a","b","1","2","3","4","5">>,
     <<"a","b","c","1","2","3","4","6">>,
     <<"a","b","c","1","2","3","4","6"," ","c","a","r">>,
     <<"c","a","r">>,
     <<"c","h","a","s","s","i","s"," ","p","a","d">>,
     <<"h","e","l","i","x">>,
     <<"s","a","e","9","0">>,
     <<"o","i","l",".","5","l">>,
     <<"x","y","z">>,
     <<"S","h","e","l","l"," ","H","e","l","i","x"," ","5","W","3","0"," ","1","L">>,
     <<"p","u","d">>,
     <<"5","w","4","0">>,
     <<" ","O","E","M"," ","1","9","0","6","8","9"," ">>,
     <<"b","r","a","k","e"," ","e","l","f">>,
     <<"a","p","i"," ","5">>,
     <<"e","v","o"," ","1","3","1">> >>

\* Every text the search box can hold: a typed query or a product's name
SearchTexts ==
  {Queries[q] : q \in DOMAIN Queries}
    \cup {ProductPool[p].name : p \in DOMAIN ProductPool}

\* The scorer's running states for every product and search text
RunningTable ==
  [p \in DOMAIN ProductPool |->
     [query \in SearchTexts |-> runningOf(ProductPool[p], query)]]

\* The scorer's result for every product and search text
ScoreTable ==
  [p \in DOMAIN ProductPool |->
     [query \in SearchTexts |-> scoreProduct(ProductPool[p], query)]]

\* The map callback's result for product reference p
scoreOf(p, query) == ScoreTable[p][query]

\* areProductsSimilar for every two products of the pool; "throws" where
\* product.name.split fails on an absent name
SimilarTable ==
  [a \in DOMAIN ProductPool |->
     [b \in DOMAIN ProductPool |->
        IF ProductPool[a].name = Undefined \/ ProductPool[b].name = Undefined
          THEN "throws"
          ELSE IF areProductsSimilar(ProductPool[a], ProductPool[b])
                 THEN "similar" ELSE "different"]]

-----------------------------------------------------------------------------
(* smartProductSearch (place-order.tsx)                                    *)

\* candidate.product.id is in suggestionSet
InSuggestionSet(suggestions, p) ==
  \E s \in 1..Len(suggestions) : ProductPool[suggestions[s]].id = ProductPool[p].id

\* for (const item of scored): one anchor's pass over the ranking; acc is
\* [suggestions, thrown]
RECURSIVE similarLoop(_, _, _, _)
similarLoop(matchedItem, scored, k, acc) ==
  IF k > Len(scored) \/ acc.thrown THEN acc
  ELSE LET item == scored[k] IN
       IF /\ Less(item.score, Pct(40))
          /\ Len(acc.suggestions) < 5
          /\ ~InSuggestionSet(acc.suggestions, item.product)
         THEN LET similar == SimilarTable[matchedItem.product][item.product] IN
              similarLoop(matchedItem, scored, k + 1,
                IF similar = "throws" THEN [acc EXCEPT !.thrown = TRUE]
                ELSE IF similar = "similar"
                  THEN [acc EXCEPT !.suggestions = Append(@, item.product)]
                ELSE acc)
         ELSE similarLoop(matchedItem, scored, k + 1, acc)

\* for (const matchedItem of topMatches)
RECURSIVE topMatchesLoop(_, _, _, _)
topMatchesLoop(topMatches, scored, m, acc) ==
  IF m > Len(topMatches) \/ acc.thrown THEN acc
  ELSE topMatchesLoop(topMatches, scored, m + 1,
                      similarLoop(topMatches[m], scored, 1, acc))

\* A variant of similarSuggestions anchored on the first match only
similarToFirst(scored, goodMatches) ==
  topMatchesLoop(slice(goodMatches, 1), scored, 1,
                 [suggestions |-> <<>>, thrown |-> FALSE])

\* The "similar products" pass, then the fill from the potential matches
similarSuggestions(scored, goodMatches) ==
  topMatchesLoop(slice(goodMatches, 3), scored, 1,
                 [suggestions |-> <<>>, thrown |-> FALSE])

fillSuggestions(similar, potentialMatches) ==
  IF similar.thrown \/ Len(similar.suggestions) >= 3 THEN similar
  ELSE [similar EXCEPT !.suggestions =
          pushNew(slice(potentialMatches, 3 - Len(similar.suggestions)),
                  1, similar.suggestions)]

\* A variant of suggestionsOf that suggests every potential match when
\* there is no good match
suggestionsUncapped(scored, goodMatches, potentialMatches) ==
  IF Len(goodMatches) = 0
    THEN [suggestions |-> pushNew(potentialMatches, 1, <<>>), thrown |-> FALSE]
    ELSE fillSuggestions(similarSuggestions(scored, goodMatches), potentialMatches)

\* The suggestions built from the ranking: [suggestions, thrown]
suggestionsOf(scored, goodMatches, potentialMatches) ==
  IF Len(goodMatches) = 0
    THEN [suggestions |-> pushNew(slice(potentialMatches, 5), 1, <<>>),
          thrown |-> FALSE]
    ELSE fillSuggestions(similarSuggestions(scored, goodMatches), potentialMatches)

\* The outcome of a call that ended in an exception
Exception ==
  [matches |-> <<>>, suggestions |-> <<>>, noResultsMessage |-> Undefined,
   scored |-> <<>>, thrown |-> TRUE]

\* item => item.product
productOf(items) == Explicit([k \in 1..Len(items) |-> items[k].product])

\* The returned { matches, suggestions }: the object has no noResultsMessage
\* property, so reading it gives undefined.  scored is the function's local
\* ranking, kept beside the result; thrown marks a call that ended in an
\* exception instead of returning.
returned(scored, goodMatches, suggested) ==
  IF suggested.thrown THEN Exception
  ELSE [matches |-> productOf(goodMatches),
        suggestions |-> suggested.suggestions,
        noResultsMessage |-> Undefined,
        scored |-> scored, thrown |-> FALSE]

\* From the sorted ranking to the returned object
partition(scored, goodMatches, potentialMatches) ==
  returned(scored, goodMatches, suggestionsOf(scored, goodMatches, potentialMatches))

ranked(scored) ==
  partition(scored, filter(scored, IsGoodMatch), filter(scored, IsPotentialMatch))

\* The products.map callback applied to every product; a thrown callback
\* ends the map
mapped(products, scores) ==
  IF \E k \in 1..Len(scores) : scores[k].thrown THEN <<Thrown>>
  ELSE Explicit([k \in 1..Len(products) |->
                  [product   |-> products[k],
                   score     |-> scores[k].maxScore,
                   matchType |-> scores[k].matchType]])

scoresOf(products, query) ==
  Explicit([k \in 1..Len(products) |-> scoreOf(products[k], query)])

smartProductSearch(products, query) ==
  IF trim(query) = <<>>
    THEN [matches |-> products, suggestions |-> <<>>, noResultsMessage |-> Undefined,
          scored |-> <<>>, thrown |-> FALSE]
  ELSE IF mapped(products, scoresOf(products, query)) = <<Thrown>> THEN Exception
  ELSE ranked(sort(mapped(products, scoresOf(products, query))))

-----------------------------------------------------------------------------
(* parseFloat on a price string                                            *)

NaN == <<"NaN">>

DigitValue(c) == CHOOSE d \in 0..9 : ToString(d) = c

RECURSIVE DigitsValue(_, _, _)
DigitsValue(s, k, acc) ==
  IF k > Len(s) THEN acc ELSE DigitsValue(s, k + 1, 10 * acc + DigitValue(s[k]))

RECURSIVE PowerOfTen(_)
PowerOfTen(n) == IF n = 0 THEN 1 ELSE 10 * PowerOfTen(n - 1)

\* The longest run of digits of s that starts at position i
DigitRun(s, i) ==
  LET stop == IF \E j \in i..Len(s) : ~IsDigit(s[j])
                THEN CHOOSE j \in i..Len(s) :
                       ~IsDigit(s[j]) /\ \A k \in i..(j - 1) : IsDigit(s[k])
                ELSE Len(s) + 1
  IN  SubSeq(s, i, stop - 1)

\* parseFloat(string): leading blanks skipped, then digits with an optional
\* fraction; NaN when no digit is found.  The catalog's prices carry no sign
\* and no exponent.
parseFloat(string) ==
  IF string = Undefined \/ \A i \in 1..Len(string) : IsSpace(string[i]) THEN NaN
  ELSE LET first == CHOOSE i \in 1..Len(string) :
                      ~IsSpace(string[i]) /\ \A k \in 1..(i - 1) : IsSpace(string[k])
           whole == DigitRun(string, first)
           after == first + Len(whole)
           fraction == IF after <= Len(string) /\ string[after] = "."
                         THEN DigitRun(string, after + 1) ELSE <<>>
       IN  IF whole = <<>> /\ fraction = <<>> THEN NaN
           ELSE Frac(DigitsValue(whole \o fraction, 1, 0), PowerOfTen(Len(fraction)))

\* parseFloat(product.price) > 0; a comparison with NaN is false
IsPositive(price) == price # NaN /\ Less(Zero, price)

\* The test for every product of the pool
PositivePrices ==
  {p \in DOMAIN ProductPool : IsPositive(parseFloat(ProductPool[p].price))}

HasPositivePrice(p) == p \in PositivePrices

-----------------------------------------------------------------------------
(* OllamaAISearch (part_005): the search behind aiSearch                   *)

\* The length of the run of letters s starts with
LeadingLetters(s) ==
  IF \E i \in 1..Len(s) : ~IsLetter(s[i])
    THEN (CHOOSE i \in 1..Len(s) :
            ~IsLetter(s[i]) /\ \A k \in 1..(i - 1) : IsLetter(s[k])) - 1
    ELSE Len(s)

\* ^\d{lo,hi}$
DigitsOfLength(s, lo, hi) == AllDigits(s) /\ Len(s) \in lo..hi

\* s without its first character
Rest(s) == SubSeq(s, 2, Len(s))

\* oemPatterns.some(pattern => pattern.test(query.trim()))
isOEMCode(query) ==
  LET q    == trim(query)
      n    == LeadingLetters(q)
      rest == SubSeq(q, n + 1, Len(q))
  IN  \/ /\ n \in 2..4
         /\ \/ DigitsOfLength(rest, 4, 8)
            \/ rest # <<>> /\ IsSpace(rest[1]) /\ DigitsOfLength(Rest(rest), 4, 8)
      \/ DigitsOfLength(q, 6, 10)
      \/ n = 1 /\ DigitsOfLength(rest, 5, 8)
      \/ /\ n \in 1..3
         /\ \/ DigitsOfLength(rest, 3, 6)
            \/ rest # <<>> /\ rest[1] = "-" /\ DigitsOfLength(Rest(rest), 3, 6)

\* field?.toLowerCase().includes(queryLower): undefined, which is falsy, for
\* an absent field
FieldIncludes(field, queryLower) ==
  field # Undefined /\ includes(toLowerCase(field), queryLower)

\* "true" or "false", or "throws": toLowerCase called on an absent name or
\* itemCode.  The || chain stops at the first field that matches.
exactMatch(query, product) ==
  IF product.name = Undefined THEN "throws"
  ELSE IF FieldIncludes(product.name, toLowerCase(query)) THEN "true"
  ELSE IF product.itemCode = Undefined THEN "throws"
  ELSE IF \/ FieldIncludes(product.itemCode, toLowerCase(query))
          \/ FieldIncludes(product.description, toLowerCase(query))
          \/ FieldIncludes(product.category, toLowerCase(query))
          \/ FieldIncludes(product.brand, toLowerCase(query))
    THEN "true"
  ELSE "false"

\* text.match(/\d{4,}/g) || []: the maximal runs of four digits or more
LongNumbers(text) ==
  {run \in {DigitRun(text, i) : i \in {i \in 1..Len(text) :
                 IsDigit(text[i]) /\ (i = 1 \/ ~IsDigit(text[i - 1]))}} :
     Len(run) >= 4}

OemKeywords ==
  { <<"o","e","m">>, <<"o","r","i","g","i","n","a","l">>,
    <<"e","q","u","i","v","a","l","e","n","t">>,
    <<"c","o","m","p","a","t","i","b","l","e">>,
    <<"r","e","p","l","a","c","e","m","e","n","t">> }

calculateOEMScore(query, product) ==
  LET productText == toLowerCase(Template(product.name) \o <<" ">>
                                   \o OrEmpty(product.description))
      queryNum == filter(query, IsDigit)
  IN  IF /\ Len(queryNum) >= 4
         /\ \E num \in LongNumbers(productText) :
              \/ includes(num, slice(queryNum, 4))
              \/ includes(queryNum, slice(num, 4))
        THEN Pct(80)
      ELSE IF \E keyword \in OemKeywords : includes(productText, keyword)
        THEN Pct(40)
      ELSE Zero

\* s.split(/\s+/): a run of blanks separates two words; a text that starts
\* or ends with blanks gets an empty first or last word
splitBlanks(s) ==
  LET parts == split(s)
      kept  == {k \in 1..Len(parts) : parts[k] # <<>> \/ k = 1 \/ k = Len(parts)}
  IN  Explicit([n \in 1..Cardinality(kept) |-> parts[Nth(kept, n)]])

calculateLocalScore(query, product) ==
  LET queryWords  == splitBlanks(toLowerCase(query))
      productText == toLowerCase(Template(product.name) \o <<" ">>
                                   \o Template(product.itemCode) \o <<" ">>
                                   \o OrEmpty(product.description))
      matchCount  == Cardinality({k \in 1..Len(queryWords) :
                                    /\ Len(queryWords[k]) > 2
                                    /\ includes(productText, queryWords[k])})
  IN  IF Len(queryWords) > 0 THEN Frac(matchCount, Len(queryWords)) ELSE Zero

\* The texts the asynchronous page is searched with
AiQueries ==
  { <<>>, <<" ">>, <<"c","a","r">>, <<"A","B","C","1","2","3","4","5">> }

\* What search reads of a product for a query, for every product of the pool
MatchFacts ==
  [p \in DOMAIN ProductPool |->
     [query \in AiQueries |->
        [exact      |-> exactMatch(query, ProductPool[p]),
         oemScore   |-> calculateOEMScore(query, ProductPool[p]),
         localScore |-> calculateLocalScore(query, ProductPool[p])]]]

\* const isOEM = this.isOEMCode(query), for every text
IsOEM == [query \in AiQueries |-> isOEMCode(query)]

\* What getOllamaAnalysis can resolve with: [] when Ollama is not reachable,
\* or the numbers read from the model's answer
OllamaAnswers ==
  { <<>>, <<Pct(35), Pct(90), Pct(20)>> }

Candidate(score, type) == [score |-> score, type |-> type]

\* 1. Exact matches (highest priority)
exactCandidate(facts) ==
  IF facts.exact = "true" THEN <<Candidate(One, "exact")>> ELSE <<>>

\* 2. Ollama AI semantic similarity: aiScores[i] && aiScores[i] > 0.3
semanticCandidate(aiScores, i) ==
  IF i <= Len(aiScores) /\ Less(Pct(30), aiScores[i])
    THEN <<Candidate(aiScores[i], "semantic")>> ELSE <<>>

\* 3. OEM code matching
oemCandidate(isOEM, facts) ==
  IF isOEM /\ Less(Pct(20), facts.oemScore)
    THEN <<Candidate(facts.oemScore, "oem_equivalent")>> ELSE <<>>

\* 4. Local fallback scoring, when nothing has been pushed
localCandidate(scores, facts) ==
  IF scores = <<>> /\ Less(Pct(20), facts.localScore)
    THEN <<Candidate(facts.localScore, "alternative")>> ELSE <<>>

\* The scores pushed for the product at place i
scoresFor(facts, aiScores, i, isOEM) ==
  exactCandidate(facts) \o semanticCandidate(aiScores, i) \o oemCandidate(isOEM, facts)

\* scores.reduce((best, current) => current.score > best.score ? current : best)
RECURSIVE reduceBest(_, _, _)
reduceBest(scores, k, best) ==
  IF k > Len(scores) THEN best
  ELSE reduceBest(scores, k + 1,
                  IF Less(best.score, scores[k].score) THEN scores[k] ELSE best)

\* The searchResults.push of one product, or nothing
bestOf(p, scores) ==
  IF scores = <<>> THEN <<>>
  ELSE << [product   |-> p,
           score     |-> reduceBest(scores, 2, scores[1]).score,
           matchType |-> reduceBest(scores, 2, scores[1]).type] >>

resultFor(p, facts, aiScores, i, isOEM) ==
  bestOf(p, scoresFor(facts, aiScores, i, isOEM)
              \o localCandidate(scoresFor(facts, aiScores, i, isOEM), facts))

\* for (let i = 0; i < products.length; i++)
RECURSIVE processLoop(_, _, _, _, _, _)
processLoop(query, products, aiScores, isOEM, i, searchResults) ==
  IF i > Len(products) THEN searchResults
  ELSE processLoop(query, products, aiScores, isOEM, i + 1,
         searchResults \o resultFor(products[i], MatchFacts[products[i]][query],
                                    aiScores, i, isOEM))

\* searchResults.sort((a, b) => b.score - a.score), a stable sort
RECURSIVE insertByScore(_, _, _)
insertByScore(sorted, item, k) ==
  IF k > Len(sorted) THEN Append(sorted, item)
  ELSE IF Less(sorted[k].score, item.score)
    THEN SubSeq(sorted, 1, k - 1) \o <<item>> \o SubSeq(sorted, k, Len(sorted))
  ELSE insertByScore(sorted, item, k + 1)

RECURSIVE sortByScore(_, _, _)
sortByScore(items, k, sorted) ==
  IF k > Len(items) THEN sorted
  ELSE sortByScore(items, k + 1, insertByScore(sorted, items[k], 1))

IsMainResult(r) == Less(Pct(40), r.score) \/ r.matchType = "exact"

IsSuggestion(r) == LessEq(r.score, Pct(40)) /\ Less(Pct(15), r.score)

\* What a call of search settles with; rejected marks a promise that rejects
Resolved(results, suggestions, noResultsMessage) ==
  [results |-> results, suggestions |-> suggestions,
   noResultsMessage |-> noResultsMessage, rejected |-> FALSE]

Rejected ==
  [results |-> <<>>, suggestions |-> <<>>, noResultsMessage |-> Undefined,
   rejected |-> TRUE]

Throws(query, products) ==
  \E i \in 1..Len(products) : MatchFacts[products[i]][query].exact = "throws"

IsExactFact(query, p) == MatchFacts[p][query].exact = "true"

\* products.map(product => ({ product, score: 1, matchType: 'exact' }))
allExact(products) ==
  Explicit([i \in 1..Len(products) |->
             [product |-> products[i], score |-> One, matchType |-> "exact"]])

\* fallbackSearch: the products one of whose fields holds the query
fallbackSearch(query, products) ==
  IF Throws(query, products) THEN Rejected
  ELSE Resolved(allExact(filter(products, LAMBDA p : IsExactFact(query, p))), <<>>,
                IF \E i \in 1..Len(products) : IsExactFact(query, products[i])
                  THEN Undefined ELSE <<"No products found for">>)

\* The return of the try block, from the sorted searchResults
ranking(searchResults, isOEM) ==
  Resolved(slice(filter(searchResults, IsMainResult), 50),
           slice(filter(searchResults, IsSuggestion), 5),
           IF filter(searchResults, IsMainResult) # <<>> THEN Undefined
           ELSE IF isOEM THEN <<"No direct match found for OEM code">>
           ELSE <<"No products found matching">>)

\* search(query, products, translations) once getOllamaAnalysis has resolved
\* with aiScores
search(query, products, aiScores) ==
  IF trim(query) = <<>>
    THEN Resolved(allExact(products), <<>>, Undefined)
  ELSE IF Throws(query, products) THEN fallbackSearch(query, products)
  ELSE ranking(sortByScore(processLoop(query, products, aiScores, IsOEM[query],
                                       1, <<>>), 1, <<>>),
               IsOEM[query])
-----------------------------------------------------------------------------
(* The two PlaceOrder pages.  place-order.tsx searches while it renders;   *)
(* the PlaceOrder of profile.tsx searches in a debounced effect and awaits *)
(* aiSearch.  One of them is mounted; both read the catalog with useQuery   *)
(* and keep the text of the search box in searchQuery.                     *)

\* The longest catalog given in an arbitrary arrangement
MaxCatalog == 2

\* The catalogs GET /api/products answers place-order.tsx with: the server's
\* list or a run of it, or up to MaxCatalog items in any arrangement
Catalogs ==
  LET N == Len(ProductPool)
  IN  {[k \in 1..(j - i + 1) |-> i + k - 1] : i \in 1..N, j \in 0..N}
        \cup {c \in UNION {[1..n -> 1..N] : n \in 0..MaxCatalog} :
                \A a, b \in DOMAIN c : a # b => c[a] # c[b]}

\* The catalogs the page of profile.tsx is given
AiCatalogs == { <<2, 9, 10, 11>>, <<9, 12, 2>> }

\* The most searches awaiting Ollama at one time
MaxInFlight == 2

\* The category and the brand the user clicks in the filter panel
ClickedCategories == { <<"O","i","l","s">> }

ClickedBrands == { <<"T","o","t","a","l">> }

\* The answer of GET /api/brands, taken as there when the page mounts
brandsData == { <<"T","o","t","a","l">> }

\* The data of useQuery before the request has answered: undefined
NoData == <<0>>

VARIABLES mounted, products, isLoading, error, searchQuery, searchResults,
          filters, timeoutId, inFlight, searchState

\* The inputs and the returns of the functions called on their own (call),
\* and the server: its sessions, the CSRF tokens it has issued and the
\* request it answered last (exchange)
VARIABLES call, sessions, customers, issued, created, exchange

\* The cart of the page (useState<CartItem[]>([])) and placeOrderMutation:
\* whether it is pending, the requests it has sent and the toast shown last
VARIABLES cart, placeOrder

vars == <<mounted, products, isLoading, error, searchQuery, searchResults,
          filters, timeoutId, inFlight, searchState,
          call, sessions, customers, issued, created, exchange,
          cart, placeOrder>>

cartVars == <<cart, placeOrder>>

\* placeOrderMutation before any mutate()
NoOrder == [isPending |-> FALSE, sent |-> 0, toast |-> ""]

\* What the pages leave alone
otherVars == <<call, sessions, customers, issued, created, exchange, cartVars>>

\* A return not made yet: a score and a distance no call returns
NoScore == <<0 - 1, 1>>

NoDistance == 0 - 1

\* No function is being called on its own
NoCall ==
  [str1 |-> <<>>, str2 |-> <<>>, product |-> 0,
   similarity |-> NoScore, distance |-> NoDistance,
   levenshteinDistance |-> NoDistance,
   levenshtein |-> NoDistance, levenshteinSimilarity |-> NoScore,
   score |-> NoScore, running |-> <<>>, aiSimilarity |-> NoScore,
   extracted |-> <<>>, codes |-> <<>>, oemSimilar |-> <<>>,
   query |-> Undefined, intent |-> <<>>,
   given |-> NoData, products |-> NoData, returned |-> <<>>, aiReturned |-> <<>>]

\* No request has been answered
NoExchange ==
  [method |-> "", path |-> "", cookie |-> 0, token |-> 0, customerId |-> "",
   erpNext |-> "", status |-> 0]

\* What only the page of profile.tsx holds
aiVars == <<filters, timeoutId, inFlight, searchState>>

\* { matches: [], suggestions: [] }
NoResults ==
  [matches |-> <<>>, suggestions |-> <<>>, noResultsMessage |-> Undefined,
   scored |-> <<>>, thrown |-> FALSE]

\* useState({ categories: [], brands: [] })
NoFilters == [categories |-> {}, brands |-> {}]

\* What performSearch closes over: the values of the render that set the timer
Closure(data, query, selected) ==
  [products |-> data, searchQuery |-> query, filters |-> selected]

\* A variant of Timer that waits 500 ms whatever the query is
TimerAlwaysDelayed(c) == [closure |-> c, delay |-> 500]

\* setTimeout(performSearch, searchQuery.trim() ? 500 : 0): the pending call
\* of the performSearch that closed over c, and its delay in ms
Timer(c) ==
  [closure |-> c, delay |-> IF trim(c.searchQuery) # <<>> THEN 500 ELSE 0]

\* The seven useState values the search effect sets, with the closure of the
\* search that set them last (searched)
Idle(c) ==
  [filteredProducts |-> <<>>, categories |-> {}, brands |-> {},
   searchResults |-> <<>>, suggestions |-> <<>>, noResultsMessage |-> Undefined,
   aiSearchStatus |-> "idle",
   searched |-> c]

\* const searchResults = products ? smartProductSearch(...) : { matches: [], suggestions: [] }
searchResultsOf(data, query) ==
  IF data = NoData THEN NoResults
  ELSE smartProductSearch(filter(data, HasPositivePrice), query)

\* The router mounts one of the two pages; the first render of profile.tsx
\* sets the search timer
Init ==
  /\ mounted \in {"place-order.tsx", "profile.tsx"}
  /\ cart = <<>>
  /\ placeOrder = NoOrder
  /\ products = NoData
  /\ isLoading = TRUE
  /\ error = FALSE
  /\ searchQuery = <<>>
  /\ searchResults = NoResults
  /\ filters = NoFilters
  /\ timeoutId = IF mounted = "profile.tsx"
                   THEN <<Timer(Closure(NoData, <<>>, NoFilters))>> ELSE <<>>
  /\ inFlight = {}
  /\ searchState = Idle(Closure(NoData, <<>>, NoFilters))
  /\ call = NoCall
  /\ sessions = {}
  /\ customers = {}
  /\ issued = {}
  /\ created = {}
  /\ exchange = NoExchange

-----------------------------------------------------------------------------
(* place-order.tsx                                                         *)

\* useQuery resolves with the catalog; the component renders again
ProductsLoaded(catalog) ==
  /\ mounted = "place-order.tsx"
  /\ isLoading
  /\ products' = catalog
  /\ isLoading' = FALSE
  /\ searchResults' = searchResultsOf(catalog, searchQuery)
  /\ UNCHANGED <<otherVars, mounted, error, searchQuery, aiVars>>

\* useQuery fails (retry: false): products stays undefined
ProductsFailed ==
  /\ mounted = "place-order.tsx"
  /\ isLoading
  /\ isLoading' = FALSE
  /\ error' = TRUE
  /\ UNCHANGED <<otherVars, mounted, products, searchQuery, searchResults, aiVars>>

\* The page is on screen: not the loading skeleton, and no render has thrown
Mounted == mounted = "place-order.tsx" /\ ~isLoading /\ ~searchResults.thrown

\* onChange={(e) => setSearchQuery(e.target.value)}
SetSearchQuery(value) ==
  /\ Mounted
  /\ searchQuery' = value
  /\ searchResults' = searchResultsOf(products, value)
  /\ UNCHANGED <<otherVars, mounted, products, isLoading, error, aiVars>>

\* The "Search this" button of a suggestion: every suggestion has one when
\* there are no matches, the first two when there are
SearchThis(k) ==
  /\ Mounted
  /\ searchQuery # <<>>
  /\ k \in 1..Len(searchResults.suggestions)
  /\ Len(searchResults.matches) > 0 => k <= 2
  /\ LET product == ProductPool[searchResults.suggestions[k]]
     IN  /\ searchQuery' = product.name
         /\ searchResults' = searchResultsOf(products, product.name)
  /\ UNCHANGED <<otherVars, mounted, products, isLoading, error, aiVars>>

\* The "Clear search" button of the "No products found" card
ClearSearch ==
  /\ Mounted
  /\ ~error
  /\ Len(searchResults.matches) = 0
  /\ searchQuery # <<>>
  /\ Len(searchResults.suggestions) = 0
  /\ searchQuery' = <<>>
  /\ searchResults' = searchResultsOf(products, <<>>)
  /\ UNCHANGED <<otherVars, mounted, products, isLoading, error, aiVars>>

\* What the page shows in place of product cards
Notice ==
  IF isLoading \/ searchResults.thrown THEN "none"
  ELSE IF error THEN "Unable to load products"
  ELSE IF Len(searchResults.matches) = 0 /\ searchQuery = <<>>
    THEN "No products available"
  ELSE IF Len(searchResults.matches) = 0 /\ Len(searchResults.suggestions) = 0
    THEN "No products found"
  ELSE IF Len(searchResults.matches) = 0
    THEN "We couldn't find it, but here are some similar products"
  ELSE "none"

-----------------------------------------------------------------------------
(* profile.tsx, PlaceOrder: the search effect                              *)

\* useQuery resolves with the catalog; products is a dependency of the
\* effect, which clears the timer and sets a new one
AiProductsLoaded(catalog) ==
  /\ mounted = "profile.tsx"
  /\ isLoading
  /\ products' = catalog
  /\ isLoading' = FALSE
  /\ timeoutId' = <<Timer(Closure(catalog, searchQuery, filters))>>
  /\ UNCHANGED <<otherVars, mounted, error, searchQuery, searchResults, filters, inFlight,
                 searchState>>

\* useQuery fails (retry: false): no dependency of the effect changes
AiProductsFailed ==
  /\ mounted = "profile.tsx"
  /\ isLoading
  /\ isLoading' = FALSE
  /\ error' = TRUE
  /\ UNCHANGED <<otherVars, mounted, products, searchQuery, searchResults, aiVars>>

\* onChange={(e) => setSearchQuery(e.target.value)}: a new text runs the
\* effect again
AiSetSearchQuery(value) ==
  /\ mounted = "profile.tsx"
  /\ ~isLoading
  /\ value # searchQuery
  /\ searchQuery' = value
  /\ timeoutId' = <<Timer(Closure(products, value, filters))>>
  /\ UNCHANGED <<otherVars, mounted, products, isLoading, error, searchResults, filters,
                 inFlight, searchState>>

\* setFilters(...): the new filters object runs the effect again
SetFilters(selected) ==
  /\ filters' = selected
  /\ timeoutId' = <<Timer(Closure(products, searchQuery, selected))>>
  /\ UNCHANGED <<otherVars, mounted, products, isLoading, error, searchQuery, searchResults,
                 inFlight, searchState>>

Toggle(set, x) == IF x \in set THEN set \ {x} ELSE set \cup {x}

\* A click on a category of the filter panel, which lists categories
ToggleCategory(category) ==
  /\ mounted = "profile.tsx"
  /\ ~isLoading
  /\ category \in searchState.categories
  /\ SetFilters([filters EXCEPT !.categories = Toggle(@, category)])

\* A click on a brand of the filter panel, which lists brands
ToggleBrand(brand) ==
  /\ mounted = "profile.tsx"
  /\ ~isLoading
  /\ brand \in searchState.brands
  /\ SetFilters([filters EXCEPT !.brands = Toggle(@, brand)])

\* The "clear all" button, shown while a filter is selected
ClearFilters ==
  /\ mounted = "profile.tsx"
  /\ ~isLoading
  /\ filters # NoFilters
  /\ SetFilters(NoFilters)

\* products.filter(...): the price and the selected categories and brands
PassesFilters(p, selected) ==
  /\ HasPositivePrice(p)
  /\ selected.categories = {} \/ ProductPool[p].category \in selected.categories
  /\ selected.brands = {} \/ ProductPool[p].brand \in selected.brands

\* A variant of filteredByFilters without the price test
filteredWithoutPrice(data, selected) ==
  filter(data, LAMBDA p : /\ selected.categories = {}
                             \/ ProductPool[p].category \in selected.categories
                          /\ selected.brands = {}
                             \/ ProductPool[p].brand \in selected.brands)

filteredByFilters(data, selected) ==
  filter(data, LAMBDA p : PassesFilters(p, selected))

\* [...new Set(products.map(p => p.category).filter(Boolean))]
productCategories(data) ==
  {ProductPool[data[i]].category : i \in 1..Len(data)} \ {Undefined, <<>>}

\* The state after the await, for a search issued by closure c that settled
\* with result
Settled(c, result) ==
  IF result.rejected THEN [searchState EXCEPT !.aiSearchStatus = "error"]
  ELSE [filteredProducts |-> productOf(result.results),
        categories |-> productCategories(c.products),
        brands |-> brandsData,
        searchResults |-> result.results,
        suggestions |-> result.suggestions,
        noResultsMessage |-> result.noResultsMessage,
        aiSearchStatus |-> IF trim(c.searchQuery) # <<>> THEN "success" ELSE "idle",
        searched |-> c]

\* The timer fires and performSearch runs up to its await.  With no catalog
\* it resets the state; an empty query makes search return without awaiting
\* Ollama, so the state is set at once; any other search is left in flight.
performSearch ==
  /\ mounted = "profile.tsx"
  /\ timeoutId # <<>>
  /\ timeoutId' = <<>>
  /\ LET c == timeoutId[1].closure IN
       IF c.products = NoData
         THEN /\ searchState' = Idle(c)
              /\ UNCHANGED inFlight
       ELSE IF trim(c.searchQuery) = <<>>
         THEN /\ searchState' =
                   Settled(c, search(c.searchQuery,
                                     filteredByFilters(c.products, c.filters), <<>>))
              /\ UNCHANGED inFlight
       ELSE /\ c \in inFlight \/ Cardinality(inFlight) < MaxInFlight
            /\ searchState' = [searchState EXCEPT !.aiSearchStatus = "loading"]
            /\ inFlight' = inFlight \cup {c}
  /\ UNCHANGED <<otherVars, mounted, products, isLoading, error, searchQuery, searchResults,
                 filters>>

\* getOllamaAnalysis resolves with aiScores and the awaiting performSearch
\* of closure c runs to its end
SearchSettles(c, aiScores) ==
  /\ mounted = "profile.tsx"
  /\ c \in inFlight
  /\ inFlight' = inFlight \ {c}
  /\ searchState' =
       Settled(c, search(c.searchQuery, filteredByFilters(c.products, c.filters),
                         aiScores))
  /\ UNCHANGED <<otherVars, mounted, products, isLoading, error, searchQuery, searchResults,
                 filters, timeoutId>>

-----------------------------------------------------------------------------

Next ==
  \/ \E catalog \in Catalogs : ProductsLoaded(catalog)
  \/ ProductsFailed
  \/ \E q \in DOMAIN Queries : SetSearchQuery(Queries[q])
  \/ \E k \in 1..5 : SearchThis(k)
  \/ ClearSearch
  \/ \E catalog \in AiCatalogs : AiProductsLoaded(catalog)
  \/ AiProductsFailed
  \/ \E value \in AiQueries : AiSetSearchQuery(value)
  \/ \E category \in ClickedCategories : ToggleCategory(category)
  \/ \E brand \in ClickedBrands : ToggleBrand(brand)
  \/ ClearFilters
  \/ performSearch
  \/ \E c \in inFlight, aiScores \in OllamaAnswers : SearchSettles(c, aiScores)

Spec == Init /\ [][Next]_vars

-----------------------------------------------------------------------------
(* The contract of smartProductSearch, read off the renders of              *)
(* place-order.tsx.  searchResults.scored is the ranking the call sorted.  *)

\* A render that searched a loaded catalog for a text and returned
Searched ==
  /\ mounted = "place-order.tsx"
  /\ products # NoData
  /\ ~searchResults.thrown
  /\ ~AllSpaces(searchQuery)

\* The codes extractOEMCodes reads in every search text
CodesOf == [query \in SearchTexts |-> extractOEMCodes(query)]

\* The codes extractOEMCodes reads in the text of every product
ProductCodesOf == [p \in DOMAIN ProductPool |-> productOEMCodesOf(ProductPool[p])]

\* A code of the query is a substring of the product's upper-cased itemCode
HasExactCode(p, query) ==
  /\ ProductPool[p].itemCode # Undefined
  /\ \E c \in 1..Len(CodesOf[query]) :
       includes(toUpperCase(ProductPool[p].itemCode), CodesOf[query][c])

\* C1: a product whose itemCode holds a code of the query is scored 1.0,
\* typed OEM_EXACT and ranked before every product scored below 1.0
C1_ExactCodeWins ==
  Searched =>
    \A k \in 1..Len(searchResults.scored) :
      HasExactCode(searchResults.scored[k].product, searchQuery) =>
        /\ searchResults.scored[k].score = One
        /\ searchResults.scored[k].matchType = "OEM_EXACT"
        /\ \A j \in 1..Len(searchResults.scored) :
             Less(searchResults.scored[j].score, One) => k < j

\* The score each tier gives when it runs on its own from maxScore = 0, in
\* the order OEM, exact term, fuzzy, specification
tierScores(product, query) ==
  << oemTier(product, extractOEMCodes(query), Running(Zero, "")).maxScore,
     exactTermTier(product, searchTermsOf(query), Running(Zero, "")).maxScore,
     fuzzyTier(product, searchTermsOf(query), Running(Zero, "")).maxScore,
     specificationTier(product, queryLowerOf(query), Running(Zero, "")).maxScore >>

TierScores ==
  [p \in DOMAIN ProductPool |->
     [query \in SearchTexts |-> tierScores(ProductPool[p], query)]]

\* The tier a matchType is the tag of
TierOfType(matchType) ==
  CASE matchType \in {"OEM_EXACT", "OEM_SIMILAR", "OEM_PARTIAL"} -> 1
    [] matchType \in {"NAME_EXACT", "CODE_EXACT", "DESC_EXACT"} -> 2
    [] matchType = "FUZZY" -> 3
    [] matchType \in {"SPEC_VISCOSITY", "SPEC_VOLUME", "SPEC_GRADE"} -> 4
    [] OTHER -> 0

\* The earliest tier whose own score is the given one; 0 when none is
FirstTierReaching(p, query, score) ==
  IF \E n \in 1..4 : TierScores[p][query][n] = score
    THEN CHOOSE n \in 1..4 :
           /\ TierScores[p][query][n] = score
           /\ \A m \in 1..(n - 1) : TierScores[p][query][m] # score
    ELSE 0

\* C2: the matchType of a scored product is a tag of the earliest tier
\* whose score is the product's final score
C2_TypeOfMaxTier ==
  Searched =>
    \A k \in 1..Len(searchResults.scored) :
      searchResults.scored[k].score # Zero =>
        TierOfType(searchResults.scored[k].matchType) =
          FirstTierReaching(searchResults.scored[k].product, searchQuery,
                            searchResults.scored[k].score)

\* The tier in which smartProductSearch matches product p for a text; 0 for
\* no match
MatchTier(p, text) ==
  IF ScoreTable[p][text].thrown THEN 0
  ELSE TierOfType(ScoreTable[p][text].matchType)

\* q2 is q1 with one more text after it
Extends(q1, q2, extra) == q2 = q1 \o <<" ">> \o extra

\* C3: when the search text gets more text that matches a product in a
\* stronger tier than the text before did, the product's score does not drop
C3_MonotonicTiers ==
  [][(Searched /\ ~searchResults'.thrown) =>
       \A extra \in SearchTexts :
         Extends(searchQuery, searchQuery', extra) =>
           \A k \in 1..Len(searchResults.scored),
              j \in 1..Len(searchResults'.scored) :
             ( /\ searchResults.scored[k].product = searchResults'.scored[j].product
               /\ MatchTier(searchResults.scored[k].product, extra)
                    \in 1..(MatchTier(searchResults.scored[k].product, searchQuery) - 1) )
             => LessEq(searchResults.scored[k].score, searchResults'.scored[j].score)]_vars

-----------------------------------------------------------------------------
(* The contract of the search effect of profile.tsx                        *)

\* No timer is set and no search awaits Ollama
Quiet == mounted = "profile.tsx" /\ timeoutId = <<>> /\ inFlight = {}

\* C4: once every search has settled, what is rendered was set by the
\* search issued last, the one for the query and filters on screen
C4_OnlyLastIssuedRendered ==
  (Quiet /\ searchState.aiSearchStatus # "error") =>
    searchState.searched = Closure(products, searchQuery, filters)

\* C5: no search is aborted by one product: smartProductSearch does not
\* throw, and aiSearch does not reject into performSearch's catch
C5_FailureIsContained ==
  /\ ~searchResults.thrown
  /\ searchState.aiSearchStatus # "error"

\* Product p passes the filters selected: a category or a brand is asked for
\* only when one is selected
Selected(p, selected) ==
  /\ selected.categories # {} => ProductPool[p].category \in selected.categories
  /\ selected.brands # {} => ProductPool[p].brand \in selected.brands

\* The products the state of profile.tsx shows, as results or suggestions
Shown ==
  {searchState.filteredProducts[k] : k \in 1..Len(searchState.filteredProducts)}
    \cup {searchState.searchResults[k].product : k \in 1..Len(searchState.searchResults)}
    \cup {searchState.suggestions[k].product : k \in 1..Len(searchState.suggestions)}

\* C6: every product among the results or the suggestions has a price above
\* 0 and, in profile.tsx, the category and the brand its search selected
C6_FilterPreExclusion ==
  /\ \A k \in 1..Len(searchResults.matches) :
       searchResults.matches[k] \in PositivePrices
  /\ \A k \in 1..Len(searchResults.suggestions) :
       searchResults.suggestions[k] \in PositivePrices
  /\ \A p \in Shown :
       p \in PositivePrices /\ Selected(p, searchState.searched.filters)

\* A search with a category and a brand selected has results, and its
\* catalog holds a product priced 0 and one of another category
C6_Witness ==
  /\ mounted = "profile.tsx"
  /\ searchState.searched.filters.categories # {}
  /\ searchState.searched.filters.brands # {}
  /\ Len(searchState.searchResults) > 0
  /\ \E i \in 1..Len(searchState.searched.products) :
       searchState.searched.products[i] \notin PositivePrices
  /\ \E i \in 1..Len(searchState.searched.products) :
       ~Selected(searchState.searched.products[i], searchState.searched.filters)

\* The products of a catalog that pass the price test and the filters, in
\* catalog order
Offered(data, selected) ==
  SelectSeq(data, LAMBDA p : p \in PositivePrices /\ Selected(p, selected))

-----------------------------------------------------------------------------
(* The partition of the ranking of smartProductSearch                      *)

\* The low-confidence candidates of the ranking, in rank order
LowConfidence ==
  SelectSeq(searchResults.scored,
            LAMBDA item : LessEq(Pct(15), item.score) /\ Less(item.score, Pct(40)))

\* A search in which no product is scored 0.4 or more
NoConfident ==
  /\ Searched
  /\ \A k \in 1..Len(searchResults.scored) :
       Less(searchResults.scored[k].score, Pct(40))

\* The suggestions are the first five low-confidence candidates, or all of
\* them when they are fewer
FirstFiveLowConfidence ==
  /\ Len(searchResults.suggestions) =
       (IF Len(LowConfidence) < 5 THEN Len(LowConfidence) ELSE 5)
  /\ \A k \in 1..Len(searchResults.suggestions) :
       searchResults.suggestions[k] = LowConfidence[k].product

scoreIn(scored, p) ==
  scored[CHOOSE k \in 1..Len(scored) : scored[k].product = p].score

\* C9: every match is scored 0.4 or more, every suggestion below 0.4, and
\* no product is both a match and a suggestion
C9_Partition ==
  Searched =>
    /\ \A m \in 1..Len(searchResults.matches) :
         LessEq(Pct(40), scoreIn(searchResults.scored, searchResults.matches[m]))
    /\ \A s \in 1..Len(searchResults.suggestions) :
         Less(scoreIn(searchResults.scored, searchResults.suggestions[s]), Pct(40))
    /\ \A m \in 1..Len(searchResults.matches),
          s \in 1..Len(searchResults.suggestions) :
         searchResults.matches[m] # searchResults.suggestions[s]

\* A search returned matches and suggestions, one of them scored above 0
C9_Witness ==
  /\ Searched
  /\ Len(searchResults.matches) > 0
  /\ \E s \in 1..Len(searchResults.suggestions) :
       Less(Zero, scoreIn(searchResults.scored, searchResults.suggestions[s]))

\* The top matches the suggestions are anchored on: the first three matches
Anchors ==
  SubSeq(searchResults.matches, 1,
         IF Len(searchResults.matches) < 3 THEN Len(searchResults.matches) ELSE 3)

\* Product p is compatible with one of the anchors
Alternative(p) ==
  \E a \in 1..Len(Anchors) : SimilarTable[Anchors[a]][p] = "similar"

\* The rank of the first anchor product p is compatible with
FirstAnchor(p) ==
  CHOOSE a \in 1..Len(Anchors) :
    /\ SimilarTable[Anchors[a]][p] = "similar"
    /\ \A b \in 1..(a - 1) : SimilarTable[Anchors[b]][p] # "similar"

IsSuggested(p) ==
  \E s \in 1..Len(searchResults.suggestions) : searchResults.suggestions[s] = p

\* C10: with matches, a product scored below 0.4 that is compatible with
\* one of the top 3 matches is a suggestion and not a match, unless five
\* are suggested already; the alternatives come in the rank order of their
\* anchors, and there are never more than 5 suggestions
C10_CompatibleAlternatives ==
  (Searched /\ Len(searchResults.matches) > 0) =>
    /\ \A k \in 1..Len(searchResults.scored) :
         ( /\ Less(searchResults.scored[k].score, Pct(40))
           /\ Alternative(searchResults.scored[k].product) ) =>
           /\ \A m \in 1..Len(searchResults.matches) :
                searchResults.matches[m] # searchResults.scored[k].product
           /\ \/ IsSuggested(searchResults.scored[k].product)
              \/ Len(searchResults.suggestions) = 5
    /\ Len(searchResults.suggestions) <= 5
    /\ \A i, j \in 1..Len(searchResults.suggestions) :
         ( /\ i < j
           /\ Alternative(searchResults.suggestions[i])
           /\ Alternative(searchResults.suggestions[j]) ) =>
           FirstAnchor(searchResults.suggestions[i])
             <= FirstAnchor(searchResults.suggestions[j])

\* A suggestion is compatible with the second or third match only
C10_Witness ==
  /\ Searched
  /\ \E s \in 1..Len(searchResults.suggestions) :
       /\ Alternative(searchResults.suggestions[s])
       /\ FirstAnchor(searchResults.suggestions[s]) > 1

-----------------------------------------------------------------------------
(* The contract of areProductsSimilar                                      *)

\* Compatibility as the specification words it: a shared viscosity or a
\* shared application, and a shared volume or the shared application, and
\* different brand tokens
StatedCompatible(product1, product2) ==
  LET specs1 == extractSpecs(product1)
      specs2 == extractSpecs(product2)
      sameViscosity   == Same(specs1.viscosity, specs2.viscosity)
      sameVolume      == Same(specs1.volume, specs2.volume)
      sameApplication == Same(specs1.application, specs2.application)
  IN  /\ sameViscosity \/ sameApplication
      /\ sameVolume \/ sameApplication
      /\ specs1.brand # specs2.brand

\* The products of the pool that carry a name
Named == {p \in DOMAIN ProductPool : ProductPool[p].name # Undefined}

StatedTable ==
  [a \in Named |-> [b \in Named |-> StatedCompatible(ProductPool[a], ProductPool[b])]]

\* C11: two products of the loaded catalog are compatible exactly when they
\* share a viscosity or an application, share a volume or the application,
\* and have different brand tokens
C11_CompatibleExactlyWhen ==
  (mounted = "place-order.tsx" /\ products # NoData) =>
    \A i, j \in 1..Len(products) :
      (products[i] \in Named /\ products[j] \in Named) =>
        ( SimilarTable[products[i]][products[j]] = "similar"
            <=> StatedTable[products[i]][products[j]] )

-----------------------------------------------------------------------------
(* The empty catalog on place-order.tsx                                    *)

\* The catalog has loaded and holds no product to search
EmptyCatalog ==
  /\ Mounted
  /\ ~error
  /\ products # NoData
  /\ Offered(products, NoFilters) = <<>>

\* C12: a search of an empty catalog gives no results, no suggestions and
\* the "no products" notice, never the "No products found" notice that a
\* query matching nothing in a catalog with products gets
C12_EmptyCatalogIsTold ==
  EmptyCatalog =>
    /\ searchResults.matches = <<>>
    /\ searchResults.suggestions = <<>>
    /\ Notice = "No products available"

-----------------------------------------------------------------------------
(* The edit distances of lib/smart-search.ts and of part_004               *)

\* levenshteinDistance (smart-search.ts): the matrix of calculateSimilarity,
\* filled in the same order, on the strings as given
levenshteinDistance(str1, str2) ==
  matrixRows(str1, str2, 1,
             << [i \in 1..(Len(str1) + 1) |-> i - 1] >>)[Len(str2) + 1][Len(str1) + 1]

\* A variant of levenshteinRow in which a substitution costs 2
RECURSIVE levenshteinRowCostly(_, _, _, _, _)
levenshteinRowCostly(a, b, i, above, row) ==
  LET j == Len(row) IN
  IF j > Len(a) THEN row
  ELSE levenshteinRowCostly(a, b, i, above,
         Append(row, IF b[i] = a[j] THEN above[j]
                     ELSE Min3(above[j] + 2, row[j] + 1, above[j + 1] + 1)))

\* levenshtein (part_004): the row matrix[i], which starts as [i]; row[j + 1]
\* holds matrix[i][j]
RECURSIVE levenshteinRow(_, _, _, _, _)
levenshteinRow(a, b, i, above, row) ==
  LET j == Len(row) IN
  IF j > Len(a) THEN row
  ELSE levenshteinRow(a, b, i, above,
         Append(row, IF b[i] = a[j] THEN above[j]
                     ELSE Min3(above[j] + 1, row[j] + 1, above[j + 1] + 1)))

RECURSIVE levenshteinRows(_, _, _, _)
levenshteinRows(a, b, i, matrix) ==
  IF i > Len(b) THEN matrix
  ELSE levenshteinRows(a, b, i + 1,
                       Append(matrix, levenshteinRow(a, b, i, matrix[i], <<i>>)))

levenshtein(a, b) ==
  IF Len(a) = 0 THEN Len(b)
  ELSE IF Len(b) = 0 THEN Len(a)
  ELSE levenshteinRows(a, b, 1,
                       << [j \in 1..(Len(a) + 1) |-> j - 1] >>)[Len(b) + 1][Len(a) + 1]

\* calculateSimilarity of part_004: 1 - distance / maxLength, 1 for two
\* empty strings
calculateSimilarityByLevenshtein(a, b) ==
  LET distance  == levenshtein(a, b)
      maxLength == IF Len(a) > Len(b) THEN Len(a) ELSE Len(b)
  IN  IF maxLength = 0 THEN One ELSE Frac(maxLength - distance, maxLength)

-----------------------------------------------------------------------------
(* calculateAISimilarity (lib/smart-search.ts)                             *)

\* const name = value, then the statements that use it: value is computed
\* once
Once(value, Use(_)) == CHOOSE result \in {Use(name) : name \in {value}} : TRUE

\* a + b
plus(a, b) ==
  Once(<<a, b>>, LAMBDA s : Frac(s[1][1] * s[2][2] + s[2][1] * s[1][2],
                                 s[1][2] * s[2][2]))

\* text.replace(new RegExp(pattern, 'g'), replacement)
RECURSIVE replaceAll(_, _, _)
replaceAll(text, pattern, replacement) ==
  IF Len(text) < Len(pattern) THEN text
  ELSE IF SubSeq(text, 1, Len(pattern)) = pattern
    THEN replacement \o replaceAll(SubSeq(text, Len(pattern) + 1, Len(text)),
                                   pattern, replacement)
  ELSE <<text[1]>> \o replaceAll(Tail(text), pattern, replacement)

\* The entries of phoneticMap, in the order Object.entries gives them
phoneticMap ==
  << <<<<"p","h">>, <<"f">>>>, <<<<"g","h">>, <<"f">>>>, <<<<"c","k">>, <<"k">>>>, <<<<"q","u">>, <<"k","w">>>>,
     <<<<"x">>, <<"k","s">>>>, <<<<"z">>, <<"s">>>>, <<<<"c">>, <<"k">>>>, <<<<"y">>, <<"i">>>> >>

RECURSIVE normalize(_, _)
normalize(word, k) ==
  IF k > Len(phoneticMap) THEN word
  ELSE normalize(replaceAll(word, phoneticMap[k][1], phoneticMap[k][2]), k + 1)

calculatePhoneticSimilarity(word1, word2) ==
  LET norm1 == normalize(toLowerCase(word1), 1)
      norm2 == normalize(toLowerCase(word2), 1)
  IN  IF norm1 = norm2 THEN Pct(80)
      ELSE IF includes(norm1, norm2) \/ includes(norm2, norm1) THEN Pct(60)
      ELSE Zero

calculateAIFuzzyScore(word1, word2) ==
  IF Len(word1) < 3 \/ Len(word2) < 3 THEN Zero
  ELSE LET distance   == levenshteinDistance(word1, word2)
           maxLen     == IF Len(word1) > Len(word2) THEN Len(word1) ELSE Len(word2)
           similarity == Frac(maxLen - distance, maxLen)
       IN  max(times(similarity, Pct(70)),
               times(calculatePhoneticSimilarity(word1, word2), Pct(30)))

\* The inner loop over textWords for one qWord: bestWordScore
RECURSIVE bestWordScoreOf(_, _, _, _)
bestWordScoreOf(qWord, textWords, k, bestWordScore) ==
  IF k > Len(textWords) THEN bestWordScore
  ELSE IF textWords[k] = qWord THEN One
  ELSE Once(IF includes(textWords[k], qWord) \/ includes(qWord, textWords[k])
              THEN max(bestWordScore, Pct(80))
              ELSE max(bestWordScore, calculateAIFuzzyScore(qWord, textWords[k])),
            LAMBDA best : bestWordScoreOf(qWord, textWords, k + 1, best))

\* The loop over queryWords: [totalScore, matchedWords]
RECURSIVE semanticLoop(_, _, _, _)
semanticLoop(queryWords, textWords, k, acc) ==
  IF k > Len(queryWords) THEN acc
  ELSE Once(bestWordScoreOf(queryWords[k], textWords, 1, Zero),
            LAMBDA bestWordScore :
              Once(IF Less(Pct(30), bestWordScore)
                     THEN [totalScore   |-> plus(acc.totalScore, bestWordScore),
                           matchedWords |-> acc.matchedWords + 1]
                     ELSE acc,
                   LAMBDA next : semanticLoop(queryWords, textWords, k + 1, next)))

calculateSemanticMatch(query, text) ==
  IF text = <<>> THEN Zero
  ELSE IF includes(text, query) THEN One
  ELSE Once([queryWords |-> filter(splitBlanks(query), LongerThanOne),
             textWords  |-> filter(splitBlanks(text), LongerThanOne)],
            LAMBDA w :
              Once(semanticLoop(w.queryWords, w.textWords, 1,
                                [totalScore |-> Zero, matchedWords |-> 0]),
                   LAMBDA acc :
                     IF acc.matchedWords > 0
                       THEN Frac(acc.totalScore[1],
                                 acc.totalScore[2] * Len(w.queryWords))
                       ELSE Zero))

\* The intents of recognizeIntent, in the order Object.entries gives them
intents ==
  << [type |-> "viscosity", weight |-> Pct(90),
      patterns |-> <<<<"0","w">>, <<"5","w">>, <<"1","0","w">>, <<"1","5","w">>, <<"2","0","w">>, <<"s","a","e">>>>],
     [type |-> "brand", weight |-> Pct(80),
      patterns |-> <<<<"t","o","t","a","l">>, <<"s","h","e","l","l">>, <<"m","o","b","i","l">>, <<"c","a","s","t","r","o","l">>, <<"m","o","t","u","l">>, <<"e","l","f">>, <<"a","f","r","i","q","u","i","a">>>>],
     [type |-> "product_type", weight |-> Pct(70),
      patterns |-> <<<<"o","i","l">>, <<"l","u","b","r","i","c","a","n","t">>, <<"g","r","e","a","s","e">>, <<"f","l","u","i","d">>, <<"f","i","l","t","e","r">>>>],
     [type |-> "capacity", weight |-> Pct(60),
      patterns |-> <<<<"1","l">>, <<"5","l">>, <<"2","0","l">>, <<"2","0","8","l">>, <<"l","i","t","e","r">>, <<"l","i","t","r","e">>>>],
     [type |-> "application", weight |-> Pct(70),
      patterns |-> <<<<"e","n","g","i","n","e">>, <<"m","o","t","o","r">>, <<"t","r","a","n","s","m","i","s","s","i","o","n">>, <<"h","y","d","r","a","u","l","i","c">>, <<"g","e","a","r">>>>] >>

\* A variant of recognizeIntentLoop in which a category that ties with the
\* best one so far replaces it
RECURSIVE recognizeIntentLoopLastWins(_, _, _)
recognizeIntentLoopLastWins(query, k, bestIntent) ==
  IF k > Len(intents) THEN bestIntent
  ELSE LET config == intents[k]
           confidence(matches) ==
             times(Frac(Len(matches), Len(config.patterns)), config.weight)
       IN  Once(filter(config.patterns, LAMBDA pattern : includes(query, pattern)),
                LAMBDA matches :
                  Once(IF /\ Len(matches) > 0
                          /\ LessEq(bestIntent.confidence, confidence(matches))
                         THEN [type |-> config.type,
                               confidence |-> confidence(matches),
                               entities |-> matches]
                         ELSE bestIntent,
                       LAMBDA next : recognizeIntentLoopLastWins(query, k + 1, next)))

RECURSIVE recognizeIntentLoop(_, _, _)
recognizeIntentLoop(query, k, bestIntent) ==
  IF k > Len(intents) THEN bestIntent
  ELSE LET config == intents[k]
           confidence(matches) ==
             times(Frac(Len(matches), Len(config.patterns)), config.weight)
       IN  Once(filter(config.patterns, LAMBDA pattern : includes(query, pattern)),
                LAMBDA matches :
                  Once(IF /\ Len(matches) > 0
                          /\ Less(bestIntent.confidence, confidence(matches))
                         THEN [type |-> config.type,
                               confidence |-> confidence(matches),
                               entities |-> matches]
                         ELSE bestIntent,
                       LAMBDA next : recognizeIntentLoop(query, k + 1, next)))

recognizeIntent(query) ==
  recognizeIntentLoop(query, 1,
                      [type |-> "general", confidence |-> Zero, entities |-> <<>>])

calculateIntentScore(intent, product) ==
  LET productText == toLowerCase(Template(product.name) \o <<" ">>
                        \o Template(product.itemCode) \o <<" ">>
                        \o OrEmpty(product.brand) \o <<" ">>
                        \o OrEmpty(product.description))
      searched == IF intent.type = "brand"
                    THEN toLowerCase(OrEmpty(product.brand)) ELSE productText
  IN  IF /\ intent.type # "general"
         /\ \E e \in 1..Len(intent.entities) : includes(searched, intent.entities[e])
        THEN intent.confidence ELSE Zero

\* The score a call that threw would have returned: none
Threw == <<0 - 2, 1>>

\* The body of calculateAISimilarity after the test of queryLower
similarityOf(queryLower, product) ==
  LET Field(text, weight) ==
        times(calculateSemanticMatch(queryLower, toLowerCase(OrEmpty(text))), weight)
  IN  Once(<<Field(product.name, Pct(90)), Field(product.itemCode, Pct(85)),
             Field(product.brand, Pct(70)), Field(product.description, Pct(75)),
             Field(product.category, Pct(60)),
             calculateIntentScore(recognizeIntent(queryLower), product)>>,
           LAMBDA fieldScores :
             Once(plus(times(fieldScores[6], Pct(40)),
                       times(CHOOSE x \in {fieldScores[f] : f \in 1..5} :
                               \A f \in 1..5 : LessEq(fieldScores[f], x),
                             Pct(60))),
                  LAMBDA similarity :
                    IF Less(One, similarity) THEN One ELSE similarity))

calculateAISimilarity(query, product) ==
  Once(trim(toLowerCase(query)),
       LAMBDA queryLower :
         IF queryLower = <<>> THEN Zero
         ELSE IF product.name = Undefined \/ product.itemCode = Undefined THEN Threw
         ELSE similarityOf(queryLower, product))

-----------------------------------------------------------------------------
(* smartSearch (lib/smart-search.ts), called without translations t        *)

oilViscosityPatterns ==
  << <<"0","w","2","0">>,
     <<"0","w","3","0">>,
     <<"0","w","4","0">>,
     <<"5","w","2","0">>,
     <<"5","w","3","0">>,
     <<"5","w","4","0">>,
     <<"5","w","5","0">>,
     <<"1","0","w","3","0">>,
     <<"1","0","w","4","0">>,
     <<"1","0","w","5","0">>,
     <<"1","0","w","6","0">>,
     <<"1","5","w","4","0">>,
     <<"1","5","w","5","0">>,
     <<"2","0","w","5","0">> >>

\* brandAlternatives: [brand, alternatives] in the order Object.keys gives
brandAlternatives ==
  << <<<<"t","o","t","a","l">>,
       <<<<"a","f","r","i","q","u","i","a">>, <<"s","h","e","l","l">>, <<"m","o","b","i","l">>, <<"c","a","s","t","r","o","l">>>>>>,
     <<<<"s","h","e","l","l">>,
       <<<<"t","o","t","a","l">>, <<"a","f","r","i","q","u","i","a">>, <<"m","o","b","i","l">>, <<"c","a","s","t","r","o","l">>>>>>,
     <<<<"m","o","b","i","l">>,
       <<<<"t","o","t","a","l">>, <<"s","h","e","l","l">>, <<"a","f","r","i","q","u","i","a">>, <<"c","a","s","t","r","o","l">>>>>>,
     <<<<"c","a","s","t","r","o","l">>,
       <<<<"t","o","t","a","l">>, <<"s","h","e","l","l">>, <<"a","f","r","i","q","u","i","a">>, <<"m","o","b","i","l">>>>>>,
     <<<<"a","f","r","i","q","u","i","a">>,
       <<<<"t","o","t","a","l">>, <<"s","h","e","l","l">>, <<"m","o","b","i","l">>, <<"c","a","s","t","r","o","l">>>>>>,
     <<<<"m","o","t","u","l">>,
       <<<<"t","o","t","a","l">>, <<"s","h","e","l","l">>, <<"m","o","b","i","l">>, <<"c","a","s","t","r","o","l">>>>>>,
     <<<<"e","l","f">>,
       <<<<"t","o","t","a","l">>, <<"s","h","e","l","l">>, <<"m","o","b","i","l">>, <<"c","a","s","t","r","o","l">>>>>> >>

\* No value (null)
Null == <<"<null>">>

\* The first item of items that text includes, or null
firstIncluded(text, items) ==
  IF \E k \in 1..Len(items) : includes(text, items[k])
    THEN items[CHOOSE k \in 1..Len(items) :
                 /\ includes(text, items[k])
                 /\ \A h \in 1..(k - 1) : ~includes(text, items[h])]
    ELSE Null

NotSpace(c) == ~IsSpace(c)

extractViscosity(text) ==
  firstIncluded(filter(toLowerCase(text), NotSpace), oilViscosityPatterns)

extractBrand(text) ==
  firstIncluded(toLowerCase(text),
                Explicit([k \in 1..Len(brandAlternatives) |-> brandAlternatives[k][1]]))

\* v.match(/(\d+)w(\d+)/) of a viscosity pattern: [winter, hot]
parse(v) ==
  LET w == CHOOSE i \in 1..Len(v) : v[i] = "w"
  IN  <<DigitsValue(SubSeq(v, 1, w - 1), 1, 0),
        DigitsValue(SubSeq(v, w + 1, Len(v)), 1, 0)>>

abs(n) == IF n < 0 THEN 0 - n ELSE n

calculateViscosityCompatibility(v1, v2) ==
  LET winterDiff == abs(parse(v1)[1] - parse(v2)[1])
      hotDiff    == abs(parse(v1)[2] - parse(v2)[2])
  IN  IF v1 = v2 THEN Pct(90)
      ELSE IF winterDiff <= 5 /\ hotDiff <= 10 THEN Pct(70)
      ELSE IF winterDiff <= 10 /\ hotDiff <= 20 THEN Pct(50)
      ELSE Zero

premium == << <<"t","o","t","a","l">>,
           <<"s","h","e","l","l">>,
           <<"m","o","b","i","l">>,
           <<"c","a","s","t","r","o","l">>,
           <<"m","o","t","u","l">> >>

\* b1 is a key of brandAlternatives (extractBrand found it)
calculateBrandCompatibility(b1, b2) ==
  LET alternatives == (CHOOSE e \in {brandAlternatives[k] : k \in 1..Len(brandAlternatives)} :
                         e[1] = b1)[2]
      IsPremium(b) == \E k \in 1..Len(premium) : premium[k] = b
  IN  IF \E k \in 1..Len(alternatives) : alternatives[k] = b2 THEN Pct(60)
      ELSE IF IsPremium(b1) /\ IsPremium(b2) THEN Pct(40)
      ELSE Pct(20)

calculateCompatibilityScore(query, product) ==
  LET queryViscosity   == extractViscosity(query)
      productViscosity == extractViscosity(Template(product.name) \o <<" ">>
                                             \o Template(product.itemCode))
      queryBrand       == extractBrand(query)
      productBrand     == toLowerCase(OrEmpty(product.brand))
  IN  IF queryViscosity # Null /\ productViscosity # Null
        THEN calculateViscosityCompatibility(queryViscosity, productViscosity)
      ELSE IF queryBrand # Null /\ productBrand # <<>>
        THEN calculateBrandCompatibility(queryBrand, productBrand)
      ELSE Zero

calculateAIAlternativeScore(query, product, intent) ==
  Once(plus(plus(times(calculateIntentScore(intent, product), Pct(40)),
                 times(calculateSemanticMatch(query,
                         Template(product.name) \o <<" ">>
                           \o OrEmpty(product.description)), Pct(30))),
            times(calculateCompatibilityScore(query, product), Pct(30))),
       LAMBDA score : IF Less(Pct(80), score) THEN Pct(80) ELSE score)

\* generateAIReason without t: the sentence and the text it ends with
generateAIReason(query, product, intent) ==
  IF extractViscosity(query) # Null /\ extractViscosity(Template(product.name)) # Null
    THEN <<"Compatible", toUpperCase(extractViscosity(Template(product.name)))>>
  ELSE IF intent.type = "brand"
    THEN <<"Alternative from", product.brand>>
  ELSE <<"AI-suggested alternative", product.name>>

\* calculateAISimilarity and calculateAIAlternativeScore for every product
\* and query
AITable ==
  [p \in DOMAIN ProductPool |->
     [q \in DOMAIN Queries |->
        Once(recognizeIntent(toLowerCase(Queries[q])),
             LAMBDA intent :
               [similarity  |-> calculateAISimilarity(Queries[q], ProductPool[p]),
                alternative |-> calculateAIAlternativeScore(Queries[q], ProductPool[p],
                                                            intent),
                reason      |-> generateAIReason(Queries[q], ProductPool[p], intent)])]]

QueryIndex(query) == CHOOSE q \in DOMAIN Queries : Queries[q] = query

aiOf(p, query) == AITable[p][QueryIndex(query)]

\* .sort((a, b) => b.similarity - a.similarity), a stable sort
RECURSIVE insertBySimilarity(_, _, _)
insertBySimilarity(sorted, item, k) ==
  IF k > Len(sorted) THEN Append(sorted, item)
  ELSE IF Less(sorted[k].similarity, item.similarity)
    THEN SubSeq(sorted, 1, k - 1) \o <<item>> \o SubSeq(sorted, k, Len(sorted))
  ELSE insertBySimilarity(sorted, item, k + 1)

RECURSIVE sortBySimilarity(_, _, _)
sortBySimilarity(items, k, sorted) ==
  IF k > Len(items) THEN sorted
  ELSE Once(insertBySimilarity(sorted, items[k], 1),
            LAMBDA next : sortBySimilarity(items, k + 1, next))

SearchResult(p, similarity, matchType, reason) ==
  [product |-> p, similarity |-> similarity, matchType |-> matchType,
   reason |-> reason]

IsAlternative(r) == Less(Pct(40), r.similarity)

findAIAlternatives(query, data) ==
  Once(filter(Explicit([k \in 1..Len(data) |->
                SearchResult(data[k], aiOf(data[k], query).alternative,
                             "alternative", aiOf(data[k], query).reason)]),
              IsAlternative),
       LAMBDA alternatives : slice(sortBySimilarity(alternatives, 1, <<>>), 5))

IsDirect(r) == Less(Pct(20), r.similarity)

IsExactMatch(r) == r.matchType = "exact" /\ Less(Pct(40), r.similarity)

IsWeakOrAlternative(r) == r.matchType = "alternative" \/ LessEq(r.similarity, Pct(40))

\* The returned { results, suggestions, noResultsMessage }; a message is
\* held as its opening words, the query it quotes left out
SmartSearchResult(results, suggestions, noResultsMessage) ==
  [results |-> results, suggestions |-> suggestions,
   noResultsMessage |-> noResultsMessage, thrown |-> FALSE]

\* product.name.toLowerCase() or product.itemCode.toLowerCase() throws
SmartSearchThrows ==
  [results |-> <<>>, suggestions |-> <<>>, noResultsMessage |-> Undefined,
   thrown |-> TRUE]

\* The results that are left when the direct matches are not good enough
combined(allResults) ==
  Once([exactMatches |-> filter(allResults, IsExactMatch),
        suggestions  |-> filter(allResults, IsWeakOrAlternative)],
       LAMBDA r :
         IF Len(allResults) = 0
           THEN SmartSearchResult(<<>>, <<>>, <<"No products found">>)
         ELSE SmartSearchResult(
                IF Len(r.exactMatches) > 0 THEN r.exactMatches
                                           ELSE slice(allResults, 6),
                slice(r.suggestions, 3),
                IF Len(r.exactMatches) = 0 /\ Len(r.suggestions) > 0
                  THEN <<"No exact matches found">> ELSE Undefined))

directResultsOf(query, data) ==
  Once(filter(Explicit([k \in 1..Len(data) |->
                SearchResult(data[k], aiOf(data[k], query).similarity,
                             "exact", Undefined)]), IsDirect),
       LAMBDA direct : sortBySimilarity(direct, 1, <<>>))

smartSearch(query, data) ==
  IF trim(query) = <<>>
    THEN SmartSearchResult(
           Explicit([k \in 1..Len(data) |->
                      SearchResult(data[k], One, "exact", Undefined)]),
           <<>>, Undefined)
  ELSE IF \E k \in 1..Len(data) : aiOf(data[k], query).similarity = Threw
    THEN SmartSearchThrows
  ELSE Once(directResultsOf(query, data),
            LAMBDA directResults :
              IF Len(directResults) > 0 /\ Less(Pct(50), directResults[1].similarity)
                THEN SmartSearchResult(directResults, <<>>, Undefined)
              ELSE Once(sortBySimilarity(
                          directResults \o findAIAlternatives(query, data), 1, <<>>),
                        LAMBDA allResults : combined(allResults)))

-----------------------------------------------------------------------------
(* The functions called on their own: the strings compared are drawn from *)
(* a small alphabet, the products and queries from the catalog.            *)

\* The longest string compared
MaxLen == 3

Alphabet == {"a", "b", "A"}

Strings == UNION {[1..n -> Alphabet] : n \in 0..MaxLen}

\* No page is mounted
PagesIdle ==
  /\ mounted = "none"
  /\ cart = <<>>
  /\ placeOrder = NoOrder
  /\ products = NoData
  /\ isLoading = TRUE
  /\ error = FALSE
  /\ searchQuery = <<>>
  /\ searchResults = NoResults
  /\ filters = NoFilters
  /\ timeoutId = <<>>
  /\ inFlight = {}
  /\ searchState = Idle(Closure(NoData, <<>>, NoFilters))

pageVars == <<mounted, products, isLoading, error, searchQuery, searchResults,
              filters, timeoutId, inFlight, searchState>>

serverVars == <<sessions, customers, issued, created, exchange>>

\* The catalogs the ranking functions are called with: the runs of the
\* server's list, and the catalogs of profile.tsx
RankCatalogs ==
  LET N == Len(ProductPool)
  IN  {[k \in 1..(j - i + 1) |-> i + k - 1] : i \in 1..N, j \in 0..N}
        \cup AiCatalogs

\* The codes isOEMSimilar is called with on its own: codes that agree at
\* both ends, at one end, in no end, a code in lower case, a short code and
\* the empty string
OemCodes ==
  { <<>>,
    <<"A","B","1">>,
    <<"A","B","1","2","3","4","5">>,
    <<"a","b","1","2","3","4","5">>,
    <<"A","B","1","X","3","4","5">>,
    <<"A","B","C","1","2","3","4","5">>,
    <<"A","B","D","1","2","3","4","6">> }

\* The queries recognizeIntent is called with on its own: the search texts
\* and the descriptions of the products, in lower case as its callers pass
\* them, and the search texts as typed
IntentQueries ==
  {toLowerCase(text) : text \in SearchTexts}
    \cup {toLowerCase(OrEmpty(ProductPool[p].description)) : p \in DOMAIN ProductPool}
    \cup SearchTexts

CallsInit ==
  /\ PagesIdle
  /\ sessions = {}
  /\ customers = {}
  /\ issued = {}
  /\ created = {}
  /\ exchange = NoExchange
  /\ call \in {[NoCall EXCEPT !.str1 = a, !.str2 = b] : a, b \in Strings}
               \cup {[NoCall EXCEPT !.codes = <<c1, c2>>] : c1, c2 \in OemCodes}
               \cup {[NoCall EXCEPT !.query = q] : q \in IntentQueries}
               \cup {[NoCall EXCEPT !.str1 = Queries[q], !.product = p] :
                       q \in DOMAIN Queries, p \in DOMAIN ProductPool}
               \cup {[NoCall EXCEPT !.str1 = Queries[q], !.given = c,
                                    !.products = c] :
                       q \in DOMAIN Queries, c \in RankCatalogs}

\* The call is of a function of two strings, of two codes, of a query, of a
\* function of a query and a product, of a function of a query and a catalog
OnStrings ==
  /\ call.product = 0
  /\ call.given = NoData
  /\ call.codes = <<>>
  /\ call.query = Undefined

OnCodes == call.codes # <<>>

OnQuery == call.query # Undefined

OnProduct == call.product # 0

OnCatalog == call.given # NoData

\* calculateSimilarity(str1, str2) of place-order.tsx; distance is the
\* matrix[s2.length][s1.length] it reads when it gets that far
CallCalculateSimilarity ==
  /\ OnStrings
  /\ call.similarity = NoScore
  /\ call' = [call EXCEPT
       !.similarity = calculateSimilarity(call.str1, call.str2),
       !.distance =
         LET s1 == toLowerCase(call.str1)
             s2 == toLowerCase(call.str2)
         IN  IF s1 = s2 \/ includes(s1, s2) \/ includes(s2, s1)
               THEN NoDistance ELSE editDistance(s1, s2)]
  /\ UNCHANGED <<pageVars, serverVars, cartVars>>

\* levenshteinDistance(str1, str2) of smart-search.ts
CallLevenshteinDistance ==
  /\ OnStrings
  /\ call.levenshteinDistance = NoDistance
  /\ call' = [call EXCEPT
       !.levenshteinDistance = levenshteinDistance(call.str1, call.str2)]
  /\ UNCHANGED <<pageVars, serverVars, cartVars>>

\* calculateSimilarity(a, b) of part_004, which calls levenshtein(a, b)
CallCalculateSimilarityByLevenshtein ==
  /\ OnStrings
  /\ call.levenshtein = NoDistance
  /\ call' = [call EXCEPT
       !.levenshtein = levenshtein(call.str1, call.str2),
       !.levenshteinSimilarity =
         calculateSimilarityByLevenshtein(call.str1, call.str2)]
  /\ UNCHANGED <<pageVars, serverVars, cartVars>>

\* The products.map callback of smartProductSearch for one product and the
\* query str1
CallScoreProduct ==
  /\ OnProduct
  /\ call.score = NoScore
  /\ call' = [call EXCEPT
       !.score = IF scoreOf(call.product, call.str1).thrown THEN Threw
                 ELSE scoreOf(call.product, call.str1).maxScore,
       !.running = IF scoreOf(call.product, call.str1).thrown THEN <<>>
                   ELSE Explicit([n \in 1..4 |->
                          RunningTable[call.product][call.str1][n].maxScore])]
  /\ UNCHANGED <<pageVars, serverVars, cartVars>>

\* extractOEMCodes(text) of place-order.tsx as smartProductSearch calls it:
\* on the query str1 and on the text of the product
CallExtractOEMCodes ==
  /\ OnProduct
  /\ call.extracted = <<>>
  /\ call' = [call EXCEPT
       !.extracted =
         << [text  |-> call.str1,
             codes |-> CodesOf[call.str1]],
            [text  |-> productTextOf(ProductPool[call.product]),
             codes |-> ProductCodesOf[call.product]] >>]
  /\ UNCHANGED <<pageVars, serverVars, cartVars>>

\* The pairs of codes isOEMSimilar is called with: the two codes, or every
\* code of the query with every code of the product (the loops of tier 1)
codePairs ==
  IF OnCodes THEN <<call.codes>>
  ELSE LET queryOEMCodes   == CodesOf[call.str1]
           productOEMCodes == ProductCodesOf[call.product]
           n               == Len(productOEMCodes)
       IN  Explicit([k \in 1..(Len(queryOEMCodes) * n) |->
                      <<queryOEMCodes[((k - 1) \div n) + 1],
                        productOEMCodes[((k - 1) % n) + 1]>>])

\* isOEMSimilar(code1, code2) of place-order.tsx, called on each pair and on
\* the pair the other way round
CallIsOEMSimilar ==
  /\ OnCodes \/ OnProduct
  /\ call.oemSimilar = <<>>
  /\ codePairs # <<>>
  /\ \E pairs \in {codePairs} :
       call' = [call EXCEPT
         !.oemSimilar =
           Explicit([k \in 1..Len(pairs) |->
             [code1      |-> pairs[k][1],
              code2      |-> pairs[k][2],
              similarity |-> isOEMSimilar(pairs[k][1], pairs[k][2]),
              reversed   |-> isOEMSimilar(pairs[k][2], pairs[k][1])]])]
  /\ UNCHANGED <<pageVars, serverVars, cartVars>>

\* recognizeIntent(query) of smart-search.ts
CallRecognizeIntent ==
  /\ OnQuery
  /\ call.intent = <<>>
  /\ call' = [call EXCEPT !.intent = <<recognizeIntent(call.query)>>]
  /\ UNCHANGED <<pageVars, serverVars, cartVars>>

\* calculateAISimilarity(query, product) of smart-search.ts
CallCalculateAISimilarity ==
  /\ OnProduct
  /\ call.aiSimilarity = NoScore
  /\ call' = [call EXCEPT !.aiSimilarity = aiOf(call.product, call.str1).similarity]
  /\ UNCHANGED <<pageVars, serverVars, cartVars>>

\* A variant of CallSmartProductSearch whose sort acts on the array it was
\* given
CallSmartProductSearchInPlace ==
  /\ OnCatalog
  /\ Len(call.returned) < 2
  /\ call' = [call EXCEPT
       !.returned = Append(@, smartProductSearch(call.products, call.str1)),
       !.products = IF smartProductSearch(call.products, call.str1).scored = <<>>
                      THEN @
                      ELSE productOf(smartProductSearch(call.products, call.str1).scored)]
  /\ UNCHANGED <<pageVars, serverVars, cartVars>>

\* smartProductSearch(products, query) of place-order.tsx, called on the
\* array products a first and a second time: map, filter and slice build new
\* arrays and sort acts on the new array scored, so products is as it was
CallSmartProductSearch ==
  /\ OnCatalog
  /\ Len(call.returned) < 2
  /\ call' = [call EXCEPT
       !.returned = Append(@, smartProductSearch(call.products, call.str1))]
  /\ UNCHANGED <<pageVars, serverVars, cartVars>>

\* smartSearch(query, products) of smart-search.ts, called a first and a
\* second time; the arrays it sorts are the ones map and filter built
CallSmartSearch ==
  /\ OnCatalog
  /\ Len(call.aiReturned) < 2
  /\ call' = [call EXCEPT
       !.aiReturned = Append(@, smartSearch(call.str1, call.products))]
  /\ UNCHANGED <<pageVars, serverVars, cartVars>>

CallsNext ==
  \/ CallCalculateSimilarity
  \/ CallLevenshteinDistance
  \/ CallCalculateSimilarityByLevenshtein
  \/ CallScoreProduct
  \/ CallExtractOEMCodes
  \/ CallIsOEMSimilar
  \/ CallRecognizeIntent
  \/ CallCalculateAISimilarity
  \/ CallSmartProductSearch
  \/ CallSmartSearch

Calls == CallsInit /\ [][CallsNext]_vars

-----------------------------------------------------------------------------
(* The contract of calculateSimilarity                                     *)

\* C13: calculateSimilarity returns 1.0 exactly when the two strings are
\* equal once lower-cased, the empty string included
C13_OneIffEqual ==
  call.similarity # NoScore =>
    (call.similarity = One <=> toLowerCase(call.str1) = toLowerCase(call.str2))

\* Two strings that differ in case only have been compared
C13_Witness ==
  /\ call.similarity = One
  /\ call.str1 # call.str2
  /\ Len(call.str1) = MaxLen

\* Exactly one of the two strings is empty
OneEmpty == (call.str1 = <<>>) # (call.str2 = <<>>)

\* C14: calculateSimilarity returns 0.0 when exactly one of the strings is
\* empty and 1.0 when both are, in place-order.tsx and in part_004
C14_EmptyStrings ==
  /\ call.similarity # NoScore =>
       /\ OneEmpty => call.similarity = Zero
       /\ (call.str1 = <<>> /\ call.str2 = <<>>) => call.similarity = One
  /\ call.levenshteinSimilarity # NoScore =>
       /\ OneEmpty => call.levenshteinSimilarity = Zero
       /\ (call.str1 = <<>> /\ call.str2 = <<>>) => call.levenshteinSimilarity = One

\* C15: calculateSimilarity(a, b) = calculateSimilarity(b, a)
C15_Symmetric ==
  call.similarity # NoScore =>
    call.similarity = calculateSimilarity(call.str2, call.str1)

\* Two strings of different lengths, neither holding the other, have been
\* compared
C15_Witness ==
  /\ call.distance # NoDistance
  /\ Len(call.str1) < Len(call.str2)
  /\ Less(Zero, call.similarity)

\* The unit-cost edit distance by its recurrence: the cheapest of deleting
\* a character, inserting one, and matching or substituting one
RECURSIVE Levenshtein(_, _)
Levenshtein(a, b) ==
  IF a = <<>> THEN Len(b)
  ELSE IF b = <<>> THEN Len(a)
  ELSE Min3(Levenshtein(Tail(a), b) + 1,
            Levenshtein(a, Tail(b)) + 1,
            Levenshtein(Tail(a), Tail(b)) + (IF Head(a) = Head(b) THEN 0 ELSE 1))

LevenshteinTable == [a \in Strings |-> [b \in Strings |-> Levenshtein(a, b)]]

\* C17: when neither lower-cased string equals or holds the other the
\* similarity is 1 - d / max(len), d the unit-cost edit distance; when one
\* holds the other and they differ it is 0.9; and the three edit distances
\* of the repository agree
C17_NormalisedEditDistance ==
  LET s1 == toLowerCase(call.str1)
      s2 == toLowerCase(call.str2)
      maxLength == IF Len(s1) > Len(s2) THEN Len(s1) ELSE Len(s2)
  IN  /\ call.similarity # NoScore =>
           IF s1 = s2 THEN TRUE
           ELSE IF includes(s1, s2) \/ includes(s2, s1)
             THEN call.similarity = Pct(90) /\ call.distance = NoDistance
           ELSE /\ call.distance = LevenshteinTable[s1][s2]
                /\ call.similarity[1] * maxLength
                     = (maxLength - call.distance) * call.similarity[2]
      /\ call.levenshteinDistance # NoDistance =>
           call.levenshteinDistance = LevenshteinTable[call.str1][call.str2]
      /\ call.levenshtein # NoDistance =>
           call.levenshtein = LevenshteinTable[call.str1][call.str2]

\* The three edit distances have been computed for two strings two edits
\* apart or more
C17_Witness ==
  /\ call.distance >= 2
  /\ call.levenshtein = call.distance
  /\ call.levenshteinDistance = call.distance

\* Score s lies in [0, 1]
InUnitInterval(s) == LessEq(Zero, s) /\ LessEq(s, One)

\* C16: every value calculateSimilarity returns, and every score
\* smartProductSearch and calculateAISimilarity give a product, lies in [0, 1]
C16_Bounded ==
  /\ call.similarity # NoScore => InUnitInterval(call.similarity)
  /\ call.score \notin {NoScore, Threw} => InUnitInterval(call.score)
  /\ call.aiSimilarity \notin {NoScore, Threw} => InUnitInterval(call.aiSimilarity)

\* A product has been scored above 0 by both searches for one query
C16_Witness ==
  /\ call.product # 0
  /\ call.score \notin {NoScore, Threw} /\ Less(Zero, call.score)
  /\ call.aiSimilarity \notin {NoScore, Threw} /\ Less(Pct(50), call.aiSimilarity)

-----------------------------------------------------------------------------
(* The search effect of profile.tsx as a debounce                          *)

\* The step changes the text of the search box of profile.tsx
QueryChanges == mounted = "profile.tsx" /\ searchQuery' # searchQuery

\* The step is the firing of the pending timer
TimerFires == mounted = "profile.tsx" /\ timeoutId # <<>> /\ timeoutId' = <<>>

-----------------------------------------------------------------------------
(* The server: registerRoutes (part_008) over the storage of storage.ts    *)

\* The most sessions the storage holds, and the most tokens
\* GET /api/csrf-token hands out
MaxSessions == 2

MaxTokens == 2

\* The customers ERPNext knows
erpNextCustomers == {"CUST-001"}

\* The customerId of a login request: absent, known to ERPNext, unknown
CustomerIds == {"", "CUST-001", "CUST-404"}

\* The sessionId cookie of a request: 0 is no cookie
Cookies == 0..MaxSessions

\* The x-csrf-token header (or body._csrf) of a request: 0 is no token, and
\* a number GET /api/csrf-token has not handed out is a token the server
\* never created
Tokens == 0..MaxTokens

\* tokens.verify(secret, token): only tokens.create(secret) makes a token
\* that verifies
verify(token) == token \in issued

\* csrfProtection: the status it answers with, or 0 when it calls next()
csrfProtection(method, token) ==
  IF method = "GET" THEN 0
  ELSE IF token = 0 \/ ~verify(token) THEN 403
  ELSE 0

\* A lookup that returns whatever the store holds under the id
LiveWhileStored(id) == {s \in sessions : s.id = id}

\* storage.getSession(id): the session, unless it is absent or has expired
Live(id) == {s \in sessions : s.id = id /\ ~s.expired}

\* requireAuth: the status it answers with, or 0 when it calls next()
requireAuth(cookie) ==
  IF cookie = 0 THEN 401
  ELSE IF Live(cookie) = {} THEN 401
  ELSE 0

\* The request and the status of its response
Exchange(method, path, cookie, token, customerId, status) ==
  [method |-> method, path |-> path, cookie |-> cookie, token |-> token,
   customerId |-> customerId, erpNext |-> "", status |-> status]

\* What the request to ERPNext meets: the service answers, or the request
\* fails (no URL configured, no connection, a timeout)
ErpNext == {"answers", "unavailable"}

\* erpNextService.getCustomer(customerId): the customer (held as its id),
\* or null when the request throws, which it does for a customer ERPNext
\* does not know and for a service that is unavailable alike
getCustomer(customerId, erpNext) ==
  IF erpNext = "answers" /\ customerId \in erpNextCustomers
    THEN <<customerId>>
    ELSE Null

\* randomUUID(): an id no session was created with before
randomUUID == Cardinality(created) + 1

\* The exchange of a login, with what the request to ERPNext met
LoginExchange(cookie, token, customerId, erpNext, status) ==
  [Exchange("POST", "/api/auth/login", cookie, token, customerId, status)
     EXCEPT !.erpNext = erpNext]

ServerInit ==
  /\ PagesIdle
  /\ call = NoCall
  /\ sessions = {}
  /\ customers = {}
  /\ issued = {}
  /\ created = {}
  /\ exchange = NoExchange

unchangedByServer == <<call, pageVars, cartVars>>

\* app.get('/api/csrf-token'): tokens.create(secret)
GetCsrfToken(cookie) ==
  /\ Cardinality(issued) < MaxTokens
  /\ issued' = issued \cup {Cardinality(issued) + 1}
  /\ exchange' = Exchange("GET", "/api/csrf-token", cookie, 0, "", 200)
  /\ UNCHANGED <<sessions, customers, created, unchangedByServer>>

\* app.post("/api/auth/login"): registered without csrfProtection; the
\* customer is asked of ERPNext only, and local storage is written, never read
Login(cookie, token, customerId, erpNext) ==
  IF customerId = ""
    THEN /\ exchange' = LoginExchange(cookie, token, customerId, "", 400)
         /\ UNCHANGED <<sessions, customers, issued, created, unchangedByServer>>
  ELSE IF getCustomer(customerId, erpNext) = Null
    THEN /\ exchange' = LoginExchange(cookie, token, customerId, erpNext, 401)
         /\ UNCHANGED <<sessions, customers, issued, created, unchangedByServer>>
  ELSE \E sessionId \in {randomUUID} :
         /\ sessionId <= MaxSessions
         /\ created' = created \cup {sessionId}
         /\ customers' = customers \cup {getCustomer(customerId, erpNext)[1]}
         /\ sessions' = sessions \cup
              {[id |-> sessionId, customerId |-> customerId, expired |-> FALSE]}
         /\ exchange' = LoginExchange(cookie, token, customerId, erpNext, 200)
         /\ UNCHANGED <<issued, unchangedByServer>>

\* app.post("/api/auth/logout"): registered without csrfProtection
Logout(cookie, token) ==
  /\ sessions' = IF cookie # 0 THEN {s \in sessions : s.id # cookie} ELSE sessions
  /\ exchange' = Exchange("POST", "/api/auth/logout", cookie, token, "", 200)
  /\ UNCHANGED <<customers, issued, created, unchangedByServer>>

\* app.post('/api/orders/create', requireAuth, csrfProtection, ...): the
\* order is simulated and nothing is stored; storage.getSession drops the
\* expired session it is asked for
CreateOrder(cookie, token) ==
  /\ sessions' = {s \in sessions : ~(s.id = cookie /\ s.expired)}
  /\ exchange' = Exchange("POST", "/api/orders/create", cookie, token, "",
       IF requireAuth(cookie) # 0 THEN requireAuth(cookie)
       ELSE IF csrfProtection("POST", token) # 0 THEN csrfProtection("POST", token)
       ELSE 200)
  /\ UNCHANGED <<customers, issued, created, unchangedByServer>>

\* The 24 hours of a session pass
SessionExpires(id) ==
  /\ \E s \in sessions : s.id = id /\ ~s.expired
  /\ sessions' = {[s EXCEPT !.expired = (@ \/ s.id = id)] : s \in sessions}
  /\ UNCHANGED <<customers, issued, created, exchange, unchangedByServer>>

\* setInterval(() => storage.deleteExpiredSessions(), one hour)
DeleteExpiredSessions ==
  /\ \E s \in sessions : s.expired
  /\ sessions' = {s \in sessions : ~s.expired}
  /\ UNCHANGED <<customers, issued, created, exchange, unchangedByServer>>

ServerNext ==
  \/ \E cookie \in Cookies : GetCsrfToken(cookie)
  \/ \E cookie \in Cookies, token \in Tokens, customerId \in CustomerIds,
          erpNext \in ErpNext :
       Login(cookie, token, customerId, erpNext)
  \/ \E cookie \in Cookies, token \in Tokens : Logout(cookie, token)
  \/ \E cookie \in Cookies, token \in Tokens : CreateOrder(cookie, token)
  \/ \E id \in 1..MaxSessions : SessionExpires(id)
  \/ DeleteExpiredSessions

Server == ServerInit /\ [][ServerNext]_vars

\* The step answers a request that is not a GET and carries no token that
\* verifies
Unverified ==
  /\ exchange' # exchange
  /\ exchange'.method # "GET"
  /\ ~verify(exchange'.token)

\* C20: every request that is not a GET and carries no valid CSRF token is
\* answered 403, and changes nothing the server stores
C20_CsrfEnforced ==
  [][Unverified =>
       /\ exchange'.status = 403
       /\ sessions' = sessions
       /\ customers' = customers]_vars

-----------------------------------------------------------------------------
(* Login while ERPNext is unavailable                                      *)

\* The step answers a login for a customer local storage holds, made while
\* ERPNext is unavailable
FallbackLogin ==
  /\ exchange' # exchange
  /\ exchange'.path = "/api/auth/login"
  /\ exchange'.erpNext = "unavailable"
  /\ exchange'.customerId \in customers

\* C21: a customer already present in local storage who logs in while
\* ERPNext is unavailable is answered 200 and obtains a session
C21_FallbackLogin ==
  [][FallbackLogin =>
       /\ exchange'.status = 200
       /\ \E s \in sessions' \ sessions :
            s.customerId = exchange'.customerId]_vars

-----------------------------------------------------------------------------
(* The tiers of the scorer of smartProductSearch                           *)

\* The greatest of a set of scores, 0 for none
Greatest(values) ==
  CHOOSE m \in values \cup {Zero} : \A v \in values \cup {Zero} : LessEq(v, m)

\* The value, when it is contributed
When(contributed, value) == IF contributed THEN {value} ELSE {}

\* What the OEM tier can contribute for a product and a query: 1.0 for a
\* code of the query in the item code, the similarity of two codes when it
\* is at least 0.8, 0.7 for a code of the query anywhere in the text
OemValues(product, query) ==
  LET queryOEMCodes   == extractOEMCodes(query)
      productOEMCodes == productOEMCodesOf(product)
  IN  UNION {
        When(includes(toUpperCase(product.itemCode), queryOEMCodes[q]),
               One)
        \cup {isOEMSimilar(queryOEMCodes[q], productOEMCodes[c]) :
                c \in {d \in 1..Len(productOEMCodes) :
                  LessEq(Pct(80), isOEMSimilar(queryOEMCodes[q], productOEMCodes[d]))}}
        \cup When(includes(searchableTextOf(product), toLowerCase(queryOEMCodes[q])),
               Pct(70))
        : q \in 1..Len(queryOEMCodes)}

\* What the exact-term tier can contribute: per term, 0.85 for the name,
\* else 0.8 for the item code, else 0.7 for the rest of the text
ExactValues(product, query) ==
  LET searchTerms == searchTermsOf(query)
      Value(term) ==
        IF includes(toLowerCase(product.name), term) THEN Pct(85)
        ELSE IF includes(toLowerCase(product.itemCode), term) THEN Pct(80)
        ELSE IF includes(searchableTextOf(product), term) THEN Pct(70)
        ELSE Zero
  IN  {Value(searchTerms[k]) : k \in {j \in 1..Len(searchTerms) : Len(searchTerms[j]) >= 2}}

\* What the fuzzy tier can contribute: per term of three characters or
\* more, the best of the weighted similarities to name, code and description
FuzzyValues(product, query) ==
  LET searchTerms == searchTermsOf(query)
      Value(term) ==
        Greatest({times(calculateSimilarity(term, toLowerCase(product.name)), Pct(80)),
                  times(calculateSimilarity(term, toLowerCase(product.itemCode)), Pct(90))}
                 \cup When(OrEmpty(product.description) # <<>>,
               times(calculateSimilarity(term, toLowerCase(product.description)), Pct(60))))
  IN  {Value(searchTerms[k]) : k \in {j \in 1..Len(searchTerms) : Len(searchTerms[j]) >= 3}}

\* What the specification tier can contribute: 0.6 for the viscosity, 0.5
\* for the volume, 0.55 for the grade of the query found in the text
SpecificationValues(product, query) ==
  LET queryLower == queryLowerOf(query)
      Found(match) == match # NoMatch /\ includes(searchableTextOf(product), match)
  IN  When(Found(matchViscosity(queryLower)),
               Pct(60))
      \cup When(Found(matchVolume(queryLower)),
               Pct(50))
      \cup When(Found(matchGrade(queryLower)),
               Pct(55))

\* The running score after a tier that runs while the score is below
\* `limit` and contributes `values`
After(score, limit, values) ==
  IF Less(score, limit) THEN max(score, Greatest(values)) ELSE score

\* The map callback has scored call.product for the query call.str1
Scored == call.product # 0 /\ call.running # <<>>

\* C22: the running score of one product never decreases from tier to tier;
\* the fuzzy tier changes it only from below 0.7 and the specification tier
\* only from below 0.6; and after each tier it is the greatest of the values
\* contributed by the tiers that ran (the exact-term tier runs below 0.9)
C22_RunningMaximum ==
  Scored =>
    LET product == ProductPool[call.product]
        query   == call.str1
        running == call.running
    IN  /\ LessEq(Zero, running[1])
        /\ \A n \in 1..3 : LessEq(running[n], running[n + 1])
        /\ running[3] # running[2] => Less(running[2], Pct(70))
        /\ running[4] # running[3] => Less(running[3], Pct(60))
        /\ running[1] = Greatest(OemValues(product, query))
        /\ running[2] = After(running[1], Pct(90), ExactValues(product, query))
        /\ running[3] = After(running[2], Pct(70), FuzzyValues(product, query))
        /\ running[4] = After(running[3], Pct(60), SpecificationValues(product, query))
        /\ call.score = running[4]

\* A product has been scored whose fuzzy tier raised the running score and
\* whose specification tier raised it again
C22_Witness ==
  /\ Scored
  /\ Less(call.running[2], call.running[3])
  /\ Less(call.running[3], call.running[4])

-----------------------------------------------------------------------------
(* The order of the ranking of smartProductSearch                          *)

\* The place of a matchType in the stated priority: the listed types in
\* their order, every other type after them
Priority(matchType) ==
  IF indexOf(matchType) = -1 THEN Len(typeOrder) ELSE indexOf(matchType)

\* C23: the ranking smartProductSearch sorted is in non-increasing score
\* order, and among products of equal score none whose matchType is later in
\* the priority list, or outside it, precedes one whose type is earlier
C23_RankingOrder ==
  \A r \in 1..Len(call.returned) :
    LET scored == call.returned[r].scored
    IN  \A k \in 1..(Len(scored) - 1) :
          /\ LessEq(scored[k + 1].score, scored[k].score)
          /\ scored[k + 1].score = scored[k].score =>
               Priority(scored[k].matchType) <= Priority(scored[k + 1].matchType)

-----------------------------------------------------------------------------
(* The fill of the suggestions of smartProductSearch                       *)

\* The alternatives the "similar products" pass found for a ranking
Alternatives(scored) == similarSuggestions(scored, filter(scored, IsGoodMatch)).suggestions

\* The low-confidence candidates of a ranking that are not among the given
\* products, in rank order
Remaining(scored, suggested) ==
  productOf(filter(filter(scored, IsPotentialMatch),
                   LAMBDA item : \A k \in 1..Len(suggested) : suggested[k] # item.product))

\* The alternatives, filled up to 3 with the remaining low-confidence
\* candidates in rank order
FilledToThree(scored) ==
  Alternatives(scored)
    \o slice(Remaining(scored, Alternatives(scored)), 3 - Len(Alternatives(scored)))

\* A call that returned matches
Confident(result) == ~result.thrown /\ result.scored # <<>> /\ Len(result.matches) > 0

\* C24: when there are matches and fewer than 3 alternatives, the
\* suggestions are the alternatives followed by the low-confidence candidates
\* not yet suggested, in rank order, up to 3 suggestions in all; no product
\* is suggested twice, and never more than 5 are
C24_FilledToThree ==
  \A r \in 1..Len(call.returned) :
    LET result == call.returned[r]
    IN  Confident(result) =>
          /\ Len(Alternatives(result.scored)) < 3 =>
               result.suggestions = FilledToThree(result.scored)
          /\ \A j, k \in 1..Len(result.suggestions) :
               result.suggestions[j] = result.suggestions[k] => j = k
          /\ Len(result.suggestions) <= 5

-----------------------------------------------------------------------------
(* The contract of extractOEMCodes                                         *)

\* {2-4 letters}{4+ letters or digits}
IsLettersThenAlnum(w) ==
  \E k \in 2..4 :
    /\ Len(w) >= k + 4
    /\ \A i \in 1..k : IsLetter(w[i])
    /\ \A i \in (k + 1)..Len(w) : IsLetter(w[i]) \/ IsDigit(w[i])

\* The token matches one of the four stated families of part codes
InStatedFamily(w) ==
  \/ IsLettersThenAlnum(w)
  \/ IsNumericCode(w)
  \/ IsLetterPrefixCode(w)
  \/ IsMixedCode(w)

\* The stated codes of a text: its tokens of a stated family and of length 4
\* or more, upper-cased
StatedCodes(text) ==
  {toUpperCase(Words(text)[k].word) :
     k \in {j \in 1..Len(Words(text)) :
              /\ InStatedFamily(Words(text)[j].word)
              /\ Len(Words(text)[j].word) >= 4}}

\* C25: extractOEMCodes returns exactly the tokens of the text that match
\* one of the four stated families, upper-cased and of length 4 or more,
\* each once, and nothing when no token matches
C25_StatedFamilies ==
  \A e \in 1..Len(call.extracted) :
    LET codes == call.extracted[e].codes
    IN  /\ {codes[k] : k \in 1..Len(codes)} = StatedCodes(call.extracted[e].text)
        /\ \A j, k \in 1..Len(codes) : codes[j] = codes[k] => j = k

-----------------------------------------------------------------------------
(* The contract of isOEMSimilar                                            *)

\* The first and the last three characters of a code (the whole code when it
\* is shorter)
FirstThree(code) == IF Len(code) <= 3 THEN code ELSE SubSeq(code, 1, 3)

LastThree(code) == IF Len(code) <= 3 THEN code ELSE SubSeq(code, Len(code) - 2, Len(code))

\* The stated rules, tried in their order
StatedOEMSimilarity(c1, c2) ==
  CASE c1 = c2 -> One
    [] c1 # c2 /\ (includes(c1, c2) \/ includes(c2, c1)) -> Pct(90)
    [] OTHER ->
         LET prefixes == (IF FirstThree(c1) = FirstThree(c2) THEN 1 ELSE 0)
                           + (IF LastThree(c1) = LastThree(c2) THEN 1 ELSE 0)
         IN  IF prefixes = 2 THEN Pct(80)
             ELSE IF prefixes = 1 THEN Pct(60)
             ELSE IF Less(Pct(70), calculateSimilarity(c1, c2))
               THEN calculateSimilarity(c1, c2)
             ELSE Zero

\* C26: isOEMSimilar gives 1.0 for identical codes, 0.9 when one contains the
\* other, 0.8 when the first three and the last three characters both agree,
\* 0.6 when exactly one of them does, and otherwise the string similarity
\* when it is above 0.7 and 0 when not; and it gives the same for (c1, c2)
\* and (c2, c1)
C26_OEMSimilarity ==
  \A k \in 1..Len(call.oemSimilar) :
    LET pair == call.oemSimilar[k]
    IN  /\ pair.similarity = StatedOEMSimilarity(pair.code1, pair.code2)
        /\ pair.reversed = pair.similarity

\* Two codes that differ at both ends and are more than 0.7 similar have
\* been compared
C26_Witness ==
  /\ OnCodes
  /\ call.oemSimilar # <<>>
  /\ call.oemSimilar[1].similarity \notin {One, Pct(90), Pct(80), Pct(60), Zero}

-----------------------------------------------------------------------------
(* The contract of recognizeIntent                                         *)

\* The tokens of the vocabulary of category k that occur in the query
Matched(query, k) ==
  {i \in 1..Len(intents[k].patterns) : includes(query, intents[k].patterns[i])}

\* matched vocabulary tokens / vocabulary size * category weight
Confidence(query, k) ==
  times(Frac(Cardinality(Matched(query, k)), Len(intents[k].patterns)),
        intents[k].weight)

\* The categories with a token in the query
MatchedCategories(query) == {k \in 1..Len(intents) : Matched(query, k) # {}}

\* The category of the highest confidence, the earliest declared of them
BestCategory(query) ==
  CHOOSE k \in MatchedCategories(query) :
    /\ \A j \in MatchedCategories(query) :
         LessEq(Confidence(query, j), Confidence(query, k))
    /\ \A j \in MatchedCategories(query) :
         Confidence(query, j) = Confidence(query, k) => k <= j

\* C27: recognizeIntent returns the category of the highest confidence, the
\* earliest declared one on a tie, with that confidence; general, 0 and no
\* entities when no token of a vocabulary occurs in the query; and a
\* confidence in [0, 1]
C27_BestIntent ==
  \A r \in 1..Len(call.intent) :
    LET intent == call.intent[r]
    IN  /\ MatchedCategories(call.query) = {} =>
             intent = [type |-> "general", confidence |-> Zero, entities |-> <<>>]
        /\ MatchedCategories(call.query) # {} =>
             /\ intent.type = intents[BestCategory(call.query)].type
             /\ intent.confidence = Confidence(call.query, BestCategory(call.query))
        /\ LessEq(Zero, intent.confidence) /\ LessEq(intent.confidence, One)

\* A query has been recognised in which two categories tie for the highest
\* confidence
C27_Witness ==
  /\ call.intent # <<>>
  /\ \E j, k \in MatchedCategories(call.query) :
       /\ j # k
       /\ Confidence(call.query, j) = Confidence(call.query, k)
       /\ j = BestCategory(call.query)

-----------------------------------------------------------------------------
(* The session store and the routes behind requireAuth                     *)

\* The store holds, under the id, a session whose expiresAt is still ahead
Held(id) == \E s \in sessions : s.id = id /\ ~s.expired

\* The step answers a request to the route behind requireAuth
Guarded ==
  /\ exchange' # exchange
  /\ exchange'.path = "/api/orders/create"

\* The step answers a logout
LoggedOut ==
  /\ exchange' # exchange
  /\ exchange'.path = "/api/auth/logout"

\* The step is the hourly sweep: no request is answered and sessions go
Swept ==
  /\ exchange' = exchange
  /\ sessions' # sessions
  /\ sessions' \subseteq sessions

\* C28: a request to a route behind requireAuth gets past it exactly when
\* the store holds an unexpired session under its cookie, and is answered
\* 401 otherwise; the lookup removes the session it finds expired and no
\* other; the sweep removes exactly the expired sessions; logout removes
\* the session of its cookie, and a session that has left the store, or
\* has expired, never serves again
C28_LiveSessionsOnly ==
  [][/\ Guarded =>
          /\ (exchange'.status # 401) <=> Held(exchange'.cookie)
          /\ (exchange'.status = 200) => Held(exchange'.cookie)
          /\ sessions' =
               {s \in sessions : ~(s.id = exchange'.cookie /\ s.expired)}
     /\ Swept => sessions' = {s \in sessions : ~s.expired}
     /\ LoggedOut => sessions' = {s \in sessions : s.id # exchange'.cookie}
     /\ \A id \in created :
          (\A s \in sessions : s.id # id) => (\A s \in sessions' : s.id # id)
     /\ \A s \in sessions :
          s.expired => \A t \in sessions' : t.id = s.id => t.expired]_vars

\* A request with a token that verifies, under the cookie of a session that
\* was created and has since expired or been deleted, was answered 401
C28_Witness ==
  /\ exchange.path = "/api/orders/create"
  /\ exchange.cookie \in created
  /\ verify(exchange.token)
  /\ exchange.status = 401
  /\ \A s \in sessions : s.id # exchange.cookie

-----------------------------------------------------------------------------
(* The cart of place-order.tsx and profile.tsx.  A cart item is the        *)
(* product with a quantity: [id, product, quantity].                       *)

\* The products put in the cart, the largest quantity of one item, and the
\* most orders sent
MaxCart == 3

MaxQuantity == 2

MaxOrders == 2

CartProducts == 1..MaxCart

ProductIds == {ProductPool[p].id : p \in CartProducts}

\* The catalog the page shows
CartCatalog == [k \in CartProducts |-> k]

\* prev.find(item => item.id === id): the places of the items of that id
findItem(prev, id) == {i \in DOMAIN prev : prev[i].id = id}

\* removeFromCart that lowers the quantity of whatever item it finds
removeFromCartToZero(prev, productId) ==
  [i \in DOMAIN prev |->
     IF prev[i].id = productId
       THEN [prev[i] EXCEPT !.quantity = @ - 1]
       ELSE prev[i]]

\* The updater of addToCart
addToCart(prev, product) ==
  IF findItem(prev, ProductPool[product].id) # {}
    THEN [i \in DOMAIN prev |->
            IF prev[i].id = ProductPool[product].id
              THEN [prev[i] EXCEPT !.quantity = @ + 1]
              ELSE prev[i]]
    ELSE Append(prev, [id |-> ProductPool[product].id, product |-> product,
                       quantity |-> 1])

\* The updater of removeFromCart
removeFromCart(prev, productId) ==
  IF /\ findItem(prev, productId) # {}
     /\ \E i \in findItem(prev, productId) :
          /\ \A j \in findItem(prev, productId) : i <= j
          /\ prev[i].quantity > 1
    THEN [i \in DOMAIN prev |->
            IF prev[i].id = productId
              THEN [prev[i] EXCEPT !.quantity = @ - 1]
              ELSE prev[i]]
    ELSE SelectSeq(prev, LAMBDA item : item.id # productId)

\* The page is mounted with the catalog loaded and an empty cart
CartInit ==
  /\ mounted \in {"place-order.tsx", "profile.tsx"}
  /\ cart = <<>>
  /\ placeOrder = NoOrder
  /\ products = CartCatalog
  /\ isLoading = FALSE
  /\ error = FALSE
  /\ searchQuery = <<>>
  /\ searchResults = NoResults
  /\ filters = NoFilters
  /\ timeoutId = <<>>
  /\ inFlight = {}
  /\ searchState = Idle(Closure(CartCatalog, <<>>, NoFilters))
  /\ call = NoCall
  /\ sessions = {}
  /\ customers = {}
  /\ issued = {}
  /\ created = {}
  /\ exchange = NoExchange

unchangedByCart == <<pageVars, call, serverVars>>

\* onClick={() => addToCart(product)}
AddToCart(product) ==
  /\ \A i \in findItem(cart, ProductPool[product].id) :
       cart[i].quantity < MaxQuantity
  /\ cart' = addToCart(cart, product)
  /\ UNCHANGED <<placeOrder, unchangedByCart>>

\* onClick={() => removeFromCart(product.id)}
RemoveFromCart(productId) ==
  /\ cart' = removeFromCart(cart, productId)
  /\ UNCHANGED <<placeOrder, unchangedByCart>>

\* handlePlaceOrder: the button is disabled while the mutation is pending
HandlePlaceOrder ==
  /\ ~placeOrder.isPending
  /\ IF Len(cart) = 0
       THEN placeOrder' = [placeOrder EXCEPT !.toast = "Cart Empty"]
       ELSE /\ placeOrder.sent < MaxOrders
            /\ placeOrder' = [placeOrder EXCEPT !.isPending = TRUE,
                                                !.sent = @ + 1]
  /\ UNCHANGED <<cart, unchangedByCart>>

\* placeOrderMutation.onSuccess
OrderSucceeds ==
  /\ placeOrder.isPending
  /\ placeOrder' = [placeOrder EXCEPT !.isPending = FALSE,
                                      !.toast = "Order Placed Successfully"]
  /\ cart' = <<>>
  /\ UNCHANGED unchangedByCart

\* placeOrderMutation.onError
OrderFails ==
  /\ placeOrder.isPending
  /\ placeOrder' = [placeOrder EXCEPT !.isPending = FALSE,
                                      !.toast = "Order Failed"]
  /\ UNCHANGED <<cart, unchangedByCart>>

CartNext ==
  \/ \E product \in CartProducts : AddToCart(product)
  \/ \E productId \in ProductIds : RemoveFromCart(productId)
  \/ HandlePlaceOrder
  \/ OrderSucceeds
  \/ OrderFails

Cart == CartInit /\ [][CartNext]_vars

\* The quantity the cart holds of a product id: 0 when it holds none
QuantityIn(items, id) ==
  IF \E i \in DOMAIN items : items[i].id = id
    THEN (items[CHOOSE i \in DOMAIN items : items[i].id = id]).quantity
    ELSE 0

\* The items of the other product ids, in their order
Others(items, id) == SelectSeq(items, LAMBDA item : item.id # id)

\* Each product id at most once, and every quantity at least 1
WellFormed(items) ==
  /\ \A i, j \in DOMAIN items : items[i].id = items[j].id => i = j
  /\ \A i \in DOMAIN items : items[i].quantity >= 1

\* C29: the cart holds each product id at most once and no quantity below
\* 1; addToCart raises the quantity of its product by exactly 1, creating
\* the item at 1; removeFromCart lowers it by 1, removing the item at 1,
\* and leaves the cart as it is for an id the cart does not hold; neither
\* changes another item; and handlePlaceOrder on an empty cart sends no
\* order request
C29_CartQuantities ==
  /\ []WellFormed(cart)
  /\ [][/\ \A product \in CartProducts :
             AddToCart(product) =>
               /\ QuantityIn(cart', ProductPool[product].id)
                    = QuantityIn(cart, ProductPool[product].id) + 1
               /\ Others(cart', ProductPool[product].id)
                    = Others(cart, ProductPool[product].id)
        /\ \A productId \in ProductIds :
             RemoveFromCart(productId) =>
               /\ QuantityIn(cart, productId) = 0 => cart' = cart
               /\ QuantityIn(cart, productId) > 0 =>
                    QuantityIn(cart', productId)
                      = QuantityIn(cart, productId) - 1
               /\ Others(cart', productId) = Others(cart, productId)
        /\ (HandlePlaceOrder /\ cart = <<>>) =>
             /\ placeOrder'.sent = placeOrder.sent
             /\ ~placeOrder'.isPending
        /\ placeOrder'.sent # placeOrder.sent => cart # <<>>]_vars

\* An order was refused for an empty cart and none was sent; the cart then
\* came to hold one product twice and another once
C29_Witness ==
  /\ placeOrder.toast = "Cart Empty"
  /\ placeOrder.sent = 0
  /\ Len(cart) = 2
  /\ cart[1].quantity = 1
  /\ cart[2].quantity = 2

-----------------------------------------------------------------------------
(* The output of smartSearch                                               *)

\* No product is in the list at two places
EachProductOnce(list) ==
  \A i, j \in DOMAIN list : list[i].product = list[j].product => i = j

\* The list is in non-increasing order of similarity
BySimilarity(list) ==
  \A i, j \in DOMAIN list : i < j => LessEq(list[j].similarity, list[i].similarity)

\* A product of the catalog has a direct similarity above 0.5
GoodDirectMatch ==
  \E k \in DOMAIN call.products :
    Less(Pct(50), aiOf(call.products[k], call.str1).similarity)

\* smartSearch returned for a query with something in it
SmartSearched ==
  /\ call.aiReturned # <<>>
  /\ trim(call.str1) # <<>>
  /\ ~call.aiReturned[1].thrown

\* C30: for a non-empty query smartSearch returns results with no product
\* twice and in non-increasing order of similarity, and at most 3
\* suggestions with no product twice, none at all when the best direct
\* similarity is above 0.5
C30_SmartSearchOutput ==
  SmartSearched =>
    \A n \in DOMAIN call.aiReturned :
      /\ EachProductOnce(call.aiReturned[n].results)
      /\ EachProductOnce(call.aiReturned[n].suggestions)
      /\ BySimilarity(call.aiReturned[n].results)
      /\ Len(call.aiReturned[n].suggestions) <= 3
      /\ GoodDirectMatch => call.aiReturned[n].suggestions = <<>>

=============================================================================
